---- MODULE Spec2Model ----
(***************************************************************************)
(* A model of the stream-tablet server: the video sender's fragmentation,  *)
(* the session loop of Server::run with the control channel and the        *)
(* hardware encoder's keyframe flag, and the uinput stylus / touch relay.  *)
(***************************************************************************)
EXTENDS Integers, Sequences, FiniteSets, TLC

VARIABLES
    \* VideoSender
    m_client_set,        \* VideoSender::m_client_set
    sleeps,              \* the sleep_for calls of the last send_frame, in order
    wire,                \* datagram headers put on the wire by the latest send_frame call, in order
                         \* (in the stream loop: by the current iteration)
    \* Server / ControlServer / encoder
    pc,                  \* position of Server::run
    m_running,           \* Server::m_running
    m_client_connected,  \* ControlServer::m_client_connected
    ctl_last,            \* what ControlServer::process read and did in the current loop iteration
    m_force_keyframe,    \* VAAPIEncoder::m_force_keyframe
    enc_queue,           \* frames accepted by avcodec_send_frame whose packet is not yet received
    enc_since_key,       \* frames submitted to the codec since its last keyframe
    m_frame_count,       \* Server::m_frame_count (uint32_t)
    \* history of the frames produced, kept for the properties
    emitted_last,        \* latest frame that reached the wire
    produced_key,        \* is_keyframe of the latest frame the encoder produced
    request,             \* the latest request_keyframe() not yet followed by a keyframe
    \* UInputBackend and the kernel devices it drives
    uinput_initialized,  \* UInputBackend::is_initialized(): the three devices exist
    device_log,          \* the uinput devices created and destroyed by init and shutdown, in order
    m_stylus_tool_active,\* UInputBackend::m_stylus_tool_active
    m_stylus_touching,   \* UInputBackend::m_stylus_touching
    stylus_dev,          \* stylus device as the kernel sees it: keys and ABS_PRESSURE
    m_touch_slots,       \* UInputBackend::m_touch_slots
    touch_dev,           \* touch device as the kernel sees it: keys and tracking ids
    touch_downs,         \* pointer ids of the TouchDown events not yet matched by a TouchUp
    last_input,          \* the stylus event relayed or the reset done last, and the devices before it
    \* the control listener and the receivers
    listen_queue,        \* receivers whose connection waits on ControlServer::m_listen_socket
    m_client_socket,     \* receiver at the other end of ControlServer::m_client_socket, 0 for -1
    ctl_leaked,          \* accepted control sockets left open that no descriptor is kept of
    m_client_addr,       \* receiver that VideoSender::m_client_addr designates, 0 before set_client
    \* the bytes of the control connection
    ctl_stream,          \* bytes the receiver has sent that read_message has not consumed
    ctl_sent,            \* the messages those bytes were written from, in order
    ctl_read,            \* what the latest read_message call returned
    \* the events of the input connection
    in_queue,            \* events that have arrived and that read_event has not read, in order
    arrived,             \* how many events have arrived
    injected,            \* the events that handle_input has passed to a uinput device, in order
    \* the pacing of the stream loop, times in microseconds
    capture_fps,         \* config.capture_fps
    clock,               \* high_resolution_clock::now()
    next_frame,          \* the deadline of the next capture
    tick,                \* the latest iteration: did it capture, for which deadline, how long it took
    \* the audio pipeline
    audio,               \* m_audio_capture, m_opus_encoder, m_audio_sender, m_audio_initialized,
                         \* the audio port of the latest ConfigResponse, the audio datagrams sent
    \* the pacing of the video sender
    pacing_config,       \* the --pacing and --quality options and config.pacing_mode after main
    m_pacing_mode,       \* VideoSender::m_pacing_mode
    client_host,         \* the octets of the address set_client was last called with
    \* the sequence field of the video datagrams, followed where the sender is
    \* used directly; the session specifications leave it alone
    m_sequence,          \* VideoSender::m_sequence
    sequences,           \* header->sequence of the datagrams of wire, in order
    \* the control connection byte by byte, followed where ControlServer::process
    \* is used directly
    ctl_pending,         \* bytes of a message the receiver has not written yet
    ctl_peer_open,       \* the receiver has not closed the control connection
    ctl_wait,            \* process() is inside a recv that has not returned
    \* the input connection byte by byte, followed where InputReceiver::process
    \* is used directly
    input_socket,        \* InputReceiver::m_client_socket >= 0
    in_peer_open,        \* an input peer is connected and has not closed
    in_unsent,           \* bytes the peer wrote that TCP has not delivered yet
    in_bytes,            \* bytes waiting in the socket of the input connection
    in_decoded,          \* the packets read_event returned to process(), in order
    \* the audio capture thread and the calls of the backend's stop(), followed
    \* where the backend is used directly
    aud_running,         \* PulseAudioAudio::m_running
    aud_thread,          \* where the capture thread is; "none": m_thread is not joinable
    aud_stop,            \* where each caller of stop() is
    sig_thread,          \* the thread the signal handler runs on, "none" before the signal
    aud_joins,           \* m_thread.join() calls made since the capture was started
    aud_callback         \* PulseAudioAudio::m_callback is set

senderVars  == <<m_client_set, wire, sleeps>>
sessionVars == <<pc, m_running, m_client_connected, ctl_last,
                 m_force_keyframe, enc_queue, enc_since_key, m_frame_count>>
historyVars == <<emitted_last, produced_key, request>>
inputVars   == <<uinput_initialized, device_log, m_stylus_tool_active, m_stylus_touching, stylus_dev,
                 m_touch_slots, touch_dev, touch_downs, last_input>>
clientVars  == <<listen_queue, m_client_socket, m_client_addr, ctl_leaked>>
cadenceVars == <<capture_fps, clock, next_frame, tick>>
pacingVars  == <<pacing_config, m_pacing_mode, client_host>>
partialVars == <<ctl_pending, ctl_peer_open, ctl_wait>>
inputStreamVars == <<input_socket, in_peer_open, in_unsent, in_bytes, in_decoded>>
threadVars  == <<aud_running, aud_thread, aud_stop, sig_thread, aud_joins, aud_callback>>
detailVars  == <<partialVars, inputStreamVars, threadVars>>
otherVars   == <<cadenceVars, audio, pacingVars, m_sequence, sequences, detailVars>>
arrivalVars == <<in_queue, arrived, injected, otherVars>>
streamVars  == <<ctl_stream, ctl_sent, ctl_read, arrivalVars>>
sequenceVars == <<m_sequence, sequences>>
framingVars == <<ctl_stream, ctl_sent, ctl_read, in_queue, arrived, injected, cadenceVars,
                 sequenceVars, detailVars>>
vars == <<senderVars, sessionVars, historyVars, inputVars, clientVars, streamVars>>

---------------------------------------------------------------------------
(* Program constants *)

MAX_PAYLOAD_SIZE    == 1200
MaxFragmentCount    == 65535
FrameNumberModulus  == 65536
FLAG_KEYFRAME       == 1
FLAG_START_OF_FRAME == 2
FLAG_END_OF_FRAME   == 4
ABS_MAXVAL          == 65535
NumTouchSlots       == 5
EraserButton        == 32

(* Bounds of the model *)

MaxFragments == 4      \* frames of up to this many fragments are sent
MaxDatagrams == 4      \* the sequence counter is followed for this many datagrams
MaxUnreadBytes == 4    \* the receiver starts a message when at most this many bytes wait
MaxRecords == 2        \* the input peer writes this many records
MaxLeaked == 2         \* handshakes fail while fewer sockets than this are leaked
MaxDeviceOps == 16     \* device_log is followed for this many creations and destructions
MaxFrames    == 4      \* a session is followed for this many encoded frames
MaxDelay     == 1      \* frames the codec may hold back before it outputs
GopSize      == 3      \* EncoderConfig::gop_size

---------------------------------------------------------------------------
(* The control listener *)

\* listen(m_listen_socket, 1)
ListenBacklog == 1

\* the receivers, numbered from 1
NumReceivers == 2
Receivers == 1..NumReceivers

\* the receivers that connect while accept() blocks on an empty queue
ArrivingReceivers == {1}

\* the connection accept() returns: the first one waiting, else one that arrives
AcceptSource == IF listen_queue = << >> THEN ArrivingReceivers ELSE {Head(listen_queue)}
QueueAfterAccept == IF listen_queue = << >> THEN << >> ELSE Tail(listen_queue)

\* a set_client that keeps the destination it already has
SetClientAddrOnce(host, addr) == IF addr = 0 THEN host ELSE addr

\* m_client_addr after set_client(host, ...)
SetClientAddr(host, addr) == host

---------------------------------------------------------------------------
(* VideoSender::set_client and detect_pacing_mode *)

PacingModes == {"AUTO", "NONE", "LIGHT", "AGGRESSIVE", "KEYFRAME"}
QualityModes == {"AUTO", "LOW_LATENCY", "BALANCED", "HIGH_QUALITY"}

\* if (quality_mode == AUTO && pacing_mode == 0) pacing_mode = 4
ConfigPacingMode(quality, policy) ==
    IF quality = "AUTO" /\ policy = "AUTO" THEN "KEYFRAME" ELSE policy

\* the options of main: --quality and --pacing, and config.pacing_mode
PacingConfig(quality, policy) ==
    [ quality |-> quality, policy |-> policy, pacing_mode |-> ConfigPacingMode(quality, policy) ]

\* ServerConfig: quality_mode = AUTO, pacing_mode = 0
DefaultPacingConfig == PacingConfig("AUTO", "AUTO")

\* set_client has not been called
NoHost == << >>

DigitChars == <<"0", "1", "2", "3", "4", "5", "6", "7", "8", "9">>

IsDigit(c) == \E d \in 1..10 : DigitChars[d] = c

DigitValue(c) == (CHOOSE d \in 1..10 : DigitChars[d] = c) - 1

\* an octet in decimal without leading zeros, as inet_ntop writes it
RECURSIVE FormatOctet(_)
FormatOctet(n) ==
    IF n < 10 THEN <<DigitChars[n + 1]>>
    ELSE Append(FormatOctet(n \div 10), DigitChars[(n % 10) + 1])

\* inet_ntop(AF_INET, ...): the host string of accept_client
HostString(addr) ==
    FormatOctet(addr[1]) \o <<".">> \o FormatOctet(addr[2]) \o <<".">>
        \o FormatOctet(addr[3]) \o <<".">> \o FormatOctet(addr[4])

RECURSIVE ScanDigits(_, _)
ScanDigits(str, acc) ==
    IF str # << >> /\ IsDigit(Head(str))
    THEN ScanDigits(Tail(str), acc * 10 + DigitValue(Head(str)))
    ELSE [ value |-> acc, rest |-> str ]

\* a %d conversion of sscanf on a string of digits and dots
ScanInt(str) ==
    IF str = << >> \/ ~IsDigit(Head(str))
    THEN [ ok |-> FALSE, value |-> 0, rest |-> str ]
    ELSE [ ok |-> TRUE, value |-> ScanDigits(str, 0).value, rest |-> ScanDigits(str, 0).rest ]

\* sscanf(host, "%d.%d", &first_octet, &second_octet)
ScanFirstTwo(host) ==
    LET a == ScanInt(host)
    IN  IF ~a.ok THEN [ n |-> 0, first |-> 0, second |-> 0 ]
        ELSE IF a.rest = << >> \/ Head(a.rest) # "."
        THEN [ n |-> 1, first |-> a.value, second |-> 0 ]
        ELSE LET b == ScanInt(Tail(a.rest))
             IN  IF b.ok THEN [ n |-> 2, first |-> a.value, second |-> b.value ]
                 ELSE [ n |-> 1, first |-> a.value, second |-> 0 ]

\* sscanf(host, "192.168.%d", &third_octet)
ScanThird(host) ==
    LET prefix == <<"1", "9", "2", ".", "1", "6", "8", ".">>
    IN  IF Len(host) >= Len(prefix) /\ SubSeq(host, 1, Len(prefix)) = prefix
        THEN LET c == ScanInt(SubSeq(host, Len(prefix) + 1, Len(host)))
             IN  [ n |-> IF c.ok THEN 1 ELSE 0, third |-> c.value ]
        ELSE [ n |-> 0, third |-> 0 ]

\* VideoSender::detect_pacing_mode
DetectPacingMode(host) ==
    LET two == ScanFirstTwo(host)
    IN  IF two.n >= 1 /\ two.first = 10 THEN "AGGRESSIVE"
        ELSE IF two.n >= 1 /\ two.first = 192 /\ two.second = 168
                /\ ScanThird(host).n = 1 /\ ScanThird(host).third \in {42, 43}
        THEN "AGGRESSIVE"
        ELSE "LIGHT"

\* VideoSender::set_client, the pacing part
SetClientPacing(addr, mode) ==
    /\ m_pacing_mode' = IF mode = "AUTO" THEN DetectPacingMode(HostString(addr)) ELSE mode
    /\ client_host' = addr
    /\ UNCHANGED pacing_config

\* the addresses of the receivers of the session specifications
ReceiverAddr(r) == <<192, 168, 42 + r, 5>>

\* the addresses the sender is tried with
HarnessAddrs ==
    { <<a, b, c, 5>> : a \in {1, 10, 100, 110, 192}, b \in {0, 10, 168}, c \in {4, 42, 43, 44} }

\* main parses --quality and --pacing before the server is started
ParsePacingOptions ==
    /\ client_host = NoHost
    /\ \E quality \in QualityModes, policy \in PacingModes :
         pacing_config' = PacingConfig(quality, policy)
    /\ UNCHANGED <<m_pacing_mode, client_host, framingVars, audio, inputVars, clientVars>>
    /\ UNCHANGED <<senderVars, sessionVars, historyVars>>

\* run(): set_client(client_info.host, client_info.video_port, pacing) for a
\* receiver at any address
SetClientFrom ==
    /\ \E addr \in HarnessAddrs : SetClientPacing(addr, pacing_config.pacing_mode)
    /\ m_client_set' = TRUE
    /\ UNCHANGED <<wire, sleeps, framingVars, audio, inputVars, clientVars>>
    /\ UNCHANGED <<sessionVars, historyVars>>

NextPacing == ParsePacingOptions \/ SetClientFrom

---------------------------------------------------------------------------
(* VideoSender::send_frame *)

Min(a, b) == IF a < b THEN a ELSE b

\* a bit of the flags byte
HasFlag(flags, bit) == (flags \div bit) % 2 = 1

\* a fragment count that leaves out a last fragment that is not full
NumFragmentsFullOnly(size) == size \div MAX_PAYLOAD_SIZE

\* size_t num_fragments = (size + MAX_PAYLOAD_SIZE - 1) / MAX_PAYLOAD_SIZE
NumFragments(size) == (size + MAX_PAYLOAD_SIZE - 1) \div MAX_PAYLOAD_SIZE

\* flags with the start-of-frame bit on every fragment
FragmentFlagsStartOnAll(i, num_fragments, keyframe) ==
    (IF keyframe THEN FLAG_KEYFRAME ELSE 0)
  + FLAG_START_OF_FRAME
  + (IF i = num_fragments - 1 THEN FLAG_END_OF_FRAME ELSE 0)

\* header->flags of fragment i (0-based) of num_fragments
FragmentFlags(i, num_fragments, keyframe) ==
    (IF keyframe THEN FLAG_KEYFRAME ELSE 0)
  + (IF i = 0 THEN FLAG_START_OF_FRAME ELSE 0)
  + (IF i = num_fragments - 1 THEN FLAG_END_OF_FRAME ELSE 0)

RECURSIVE OffsetAfter(_, _, _, _)
\* offset after iterations lo .. hi - 1 of the loop, entered with the given
\* offset: each iteration does offset += min(MAX_PAYLOAD_SIZE, size - offset).
\* The iterations are taken in order, the range being halved to keep the
\* evaluation shallow
OffsetAfter(lo, hi, offset, size) ==
    IF hi <= lo THEN offset
    ELSE IF hi = lo + 1 THEN offset + Min(MAX_PAYLOAD_SIZE, size - offset)
    ELSE LET mid  == (lo + hi) \div 2
             left == OffsetAfter(lo, mid, offset, size)
         IN  \* the test makes the first half be evaluated before the second
             IF left \in Nat THEN OffsetAfter(mid, hi, left, size) ELSE left

\* offset at the top of iteration i: 0, then offset += payload_size
PayloadOffset(i, size) == OffsetAfter(0, i, 0, size)

\* the header built by iteration i of the loop, with the place of the frame
\* the payload is copied from: data + payload_offset, of a frame of frame_size
FragmentHeader(i, size, frame_number, keyframe) ==
    [ frame_number   |-> frame_number % FrameNumberModulus,
      flags          |-> FragmentFlags(i, NumFragments(size), keyframe),
      fragment_idx   |-> i % 65536,
      fragment_count |-> NumFragments(size) % 65536,
      payload_len    |-> Min(MAX_PAYLOAD_SIZE, size - PayloadOffset(i, size)),
      payload_offset |-> PayloadOffset(i, size),
      frame_size     |-> size ]

\* the datagrams of one send_frame call: the loop runs i = 0 .. num_fragments-1
\* and returns at the first send_packet that fails (okPackets of them succeed)
SentDatagrams(size, frame_number, keyframe, okPackets) ==
    [ k \in 1..Min(okPackets, NumFragments(size)) |->
        FragmentHeader(k - 1, size, frame_number, keyframe) ]

\* the outcomes of send_frame: "noclient", "toolarge", "sendfail", "ok"
SendFrameResult(size, okPackets) ==
    IF ~m_client_set THEN "noclient"
    ELSE IF NumFragments(size) > MaxFragmentCount THEN "toolarge"
    ELSE IF okPackets < NumFragments(size) THEN "sendfail"
    ELSE "ok"

\* set_client: m_pacing_threshold, m_packets_per_burst, m_burst_delay_us
PacingParams(mode) ==
    CASE mode = "NONE"       -> [ threshold |-> 1000000000, burst |-> 0, delay |-> 0 ]
      [] mode = "LIGHT"      -> [ threshold |-> 50000, burst |-> 20, delay |-> 50 ]
      [] mode = "AGGRESSIVE" -> [ threshold |-> 2400, burst |-> 4, delay |-> 200 ]
      [] mode = "KEYFRAME"   -> [ threshold |-> 0, burst |-> 8, delay |-> 100 ]
      [] OTHER               -> [ threshold |-> 50000, burst |-> 20, delay |-> 50 ]

\* send_frame: need_pacing, packets_per_burst and burst_delay_us of one frame
FramePacing(mode, size, keyframe) ==
    LET params == PacingParams(mode)
    IN  IF mode = "KEYFRAME"
        THEN IF keyframe /\ size > 100000
             THEN IF size > 500000
                  THEN [ need_pacing |-> keyframe, packets_per_burst |-> 2, burst_delay_us |-> 300 ]
                  ELSE IF size > 300000
                  THEN [ need_pacing |-> keyframe, packets_per_burst |-> 4, burst_delay_us |-> 200 ]
                  ELSE [ need_pacing |-> keyframe, packets_per_burst |-> 6, burst_delay_us |-> 150 ]
             ELSE [ need_pacing |-> keyframe, packets_per_burst |-> params.burst,
                    burst_delay_us |-> params.delay ]
        ELSE [ need_pacing       |-> mode # "NONE" /\ size > params.threshold,
               packets_per_burst |-> params.burst,
               burst_delay_us    |-> params.delay ]

\* a sleep after every full burst, the one that ends the frame included
SleepAfterEveryBurst(i, packets_in_burst, packets_per_burst, num_fragments) ==
    packets_in_burst >= packets_per_burst

\* if (packets_in_burst >= packets_per_burst && i < num_fragments - 1)
SleepAfter(i, packets_in_burst, packets_per_burst, num_fragments) ==
    packets_in_burst >= packets_per_burst /\ i < num_fragments - 1

\* iteration i of the loop after its send_packet succeeded: packets_in_burst++,
\* then the sleep and the reset of the counter; a sleep is recorded with the
\* index of the fragment it follows
PacingStep(i, st, pacing, num_fragments) ==
    IF ~pacing.need_pacing THEN st
    ELSE IF SleepAfter(i, st.packets_in_burst + 1, pacing.packets_per_burst, num_fragments)
    THEN [ packets_in_burst |-> 0,
           slept |-> Append(st.slept, [ after |-> i, us |-> pacing.burst_delay_us ]) ]
    ELSE [ packets_in_burst |-> st.packets_in_burst + 1, slept |-> st.slept ]

RECURSIVE PacingLoop(_, _, _, _, _)
\* iterations lo .. hi - 1 of the loop, taken in order from the state st, the
\* range being halved to keep the evaluation shallow
PacingLoop(lo, hi, st, pacing, num_fragments) ==
    IF hi <= lo THEN st
    ELSE IF hi = lo + 1 THEN PacingStep(lo, st, pacing, num_fragments)
    ELSE LET mid  == (lo + hi) \div 2
             left == PacingLoop(lo, mid, st, pacing, num_fragments)
         IN  \* the test makes the first half be evaluated before the second
             IF left.packets_in_burst \in Nat
             THEN PacingLoop(mid, hi, left, pacing, num_fragments)
             ELSE left

\* the sleeps of a send_frame whose first `sent` send_packet calls succeed
PacingSleeps(sent, pacing, num_fragments) ==
    PacingLoop(0, sent, [ packets_in_burst |-> 0, slept |-> << >> ], pacing, num_fragments).slept

\* what send_frame puts on the wire, and where it sleeps
SendFrame(size, frame_number, keyframe, okPackets) ==
    /\ wire' = IF SendFrameResult(size, okPackets) \in {"noclient", "toolarge"}
               THEN << >>
               ELSE SentDatagrams(size, frame_number, keyframe, okPackets)
    /\ sleeps' = IF SendFrameResult(size, okPackets) \in {"noclient", "toolarge"}
                 THEN << >>
                 ELSE PacingSleeps(Min(okPackets, NumFragments(size)),
                                   FramePacing(m_pacing_mode, size, keyframe),
                                   NumFragments(size))
    /\ UNCHANGED m_client_set

\* uint16_t m_sequence: the counter wraps at 2^16
SequenceModulus == 65536

\* a counter that does not wrap
SequenceOfNoWrap(seq, k) == seq + k

\* header->sequence = m_sequence++, k increments after seq
SequenceOf(seq, k) == (seq + k) % SequenceModulus

\* the iterations of the loop that reached header->sequence = m_sequence++:
\* those whose send succeeded and the one whose send failed
Attempts(size, okPackets) ==
    IF SendFrameResult(size, okPackets) \in {"noclient", "toolarge"} THEN 0
    ELSE IF okPackets < NumFragments(size) THEN okPackets + 1
    ELSE NumFragments(size)

\* what send_frame does with the sequence counter
SendFrameSequence(size, okPackets) ==
    /\ sequences' = IF SendFrameResult(size, okPackets) \in {"noclient", "toolarge"}
                    THEN << >>
                    ELSE [ k \in 1..Min(okPackets, NumFragments(size)) |->
                             SequenceOf(m_sequence, k - 1) ]
    /\ m_sequence' = SequenceOf(m_sequence, Attempts(size, okPackets))

\* a direct use of the sender: set_client, then send_frame with any arguments
HarnessSizes ==
    {0, 1, MaxFragmentCount * MAX_PAYLOAD_SIZE + 1}
    \cup { k * MAX_PAYLOAD_SIZE + d : k \in 1..MaxFragments, d \in {-1, 0} }
    \cup { k * MAX_PAYLOAD_SIZE + 1 : k \in 1..(MaxFragments - 1) }

HarnessFrameNumbers == {0, 1, FrameNumberModulus - 1, FrameNumberModulus, FrameNumberModulus + 1}

SetClient ==
    /\ UNCHANGED <<inputVars, listen_queue, m_client_socket, ctl_leaked, framingVars, audio>>
    /\ \E host \in ArrivingReceivers :
         /\ m_client_addr' = SetClientAddr(host, m_client_addr)
         /\ SetClientPacing(ReceiverAddr(host), pacing_config.pacing_mode)
    /\ m_client_set' = TRUE
    /\ UNCHANGED <<wire, sleeps, sessionVars, historyVars>>

\* the sender is followed while its counter is within MaxDatagrams of 0 or
\* of the start of InitLate
SequenceBudget ==
    \E k \in 0..(MaxDatagrams - 1) :
        m_sequence \in {k, (SequenceModulus - 2 + k) % SequenceModulus}

SendFrameCall ==
    /\ UNCHANGED <<inputVars, clientVars, ctl_stream, ctl_sent, ctl_read, in_queue, arrived,
                   injected, cadenceVars, audio, pacingVars, detailVars>>
    /\ SequenceBudget
    /\ \E size \in HarnessSizes, frame_number \in HarnessFrameNumbers, keyframe \in BOOLEAN :
         \E okPackets \in 0..Min(NumFragments(size), MaxFragments) :
            /\ SendFrame(size, frame_number, keyframe, okPackets)
            /\ SendFrameSequence(size, okPackets)
    /\ UNCHANGED <<sessionVars, historyVars>>

---------------------------------------------------------------------------
(* The encoder: VAAPIEncoder::encode / CUDAEncoder::encode around libavcodec *)

\* the codec makes a frame a keyframe when it is forced (pict_type I) or when
\* gop_size frames have gone by since its last keyframe (also: its first frame)
CodecKeyframe(forced, since) == forced \/ since >= GopSize

\* encode(): upload, take the one-shot flag, avcodec_send_frame,
\* avcodec_receive_packet. uploadOk, sendOk: the two calls succeed;
\* recv: "packet", "eagain" or "error". The result: whether a frame comes
\* out, its is_keyframe, and the encoder's state afterwards.
Encode(uploadOk, sendOk, recv) ==
    IF ~uploadOk
    THEN [ ok |-> FALSE, key |-> FALSE, force |-> m_force_keyframe,
           queue |-> enc_queue, since |-> enc_since_key ]
    ELSE IF ~sendOk
    THEN [ ok |-> FALSE, key |-> FALSE, force |-> FALSE,
           queue |-> enc_queue, since |-> enc_since_key ]
    ELSE LET key   == CodecKeyframe(m_force_keyframe, enc_since_key)
             q     == Append(enc_queue, key)
             since == IF key THEN 1 ELSE enc_since_key + 1
         IN  IF recv = "packet"
             THEN [ ok |-> TRUE, key |-> Head(q), force |-> FALSE,
                    queue |-> Tail(q), since |-> since ]
             ELSE IF recv = "eagain"
             THEN [ ok |-> FALSE, key |-> FALSE, force |-> FALSE,
                    queue |-> q, since |-> since ]
             ELSE [ ok |-> FALSE, key |-> FALSE, force |-> FALSE,
                    queue |-> Tail(q), since |-> since ]

\* the codec answers EAGAIN only while it holds no more than MaxDelay frames
RecvOutcomes == IF Len(enc_queue) + 1 <= MaxDelay
                THEN {"packet", "eagain", "error"}
                ELSE {"packet", "error"}

\* VAAPIEncoder::request_keyframe
RequestKeyframe == TRUE

---------------------------------------------------------------------------
(* ControlServer::process *)

\* "OTHER": a type process() has no case for; "EOF": read_message fails
ControlMessages == {"KEYFRAME_REQUEST", "PING", "DISCONNECT", "OTHER", "EOF"}

\* a process() that never invokes the callback
KeyframeCallbackNever(msg) == 0

\* how many times process() invokes m_keyframe_cb for the message it read
KeyframeCallbackCalls(msg) == IF msg = "KEYFRAME_REQUEST" THEN 1 ELSE 0

\* a process() that takes no notice of a Disconnect message
ConnectedAfterEofOnly(msg) == msg # "EOF"

\* m_client_connected after process() has read msg
ConnectedAfter(msg) == msg \notin {"DISCONNECT", "EOF"}

---------------------------------------------------------------------------
(* ControlServer::read_message / send_message: the framing of the byte stream *)

MSG_KEYFRAME_REQUEST == 5
MSG_PING == 6

RECURSIVE Flatten(_)
\* the concatenation of a sequence of byte sequences
Flatten(seqs) == IF seqs = << >> THEN << >> ELSE Head(seqs) \o Flatten(Tail(seqs))

\* a length field that puts the low byte first
LengthLittleEndian(b0, b1) == (b1 * 256 + b0) % 65536

\* uint16_t length = (header[0] << 8) | header[1]
LengthField(b0, b1) == (b0 * 256 + b1) % 65536

\* the bytes send_message writes for a message of this type and payload
SendMessage(type, data) ==
    LET length == (Len(data) + 1) % 65536
    IN  << (length \div 256) % 256, length % 256, type >> \o data

\* read_message on the bytes that are there: recv(..., MSG_WAITALL) returns
\* short only when the connection ends before the bytes asked for
ReadMessage(stream) ==
    IF Len(stream) < 3
    THEN [ ok |-> FALSE, type |-> 0, data |-> << >>, rest |-> << >> ]
    ELSE LET length == LengthField(stream[1], stream[2])
             type   == stream[3]
             after  == SubSeq(stream, 4, Len(stream))
         IN  IF length > 1
             THEN IF Len(after) < length - 1
                  THEN [ ok |-> FALSE, type |-> type, data |-> after, rest |-> << >> ]
                  ELSE [ ok |-> TRUE, type |-> type,
                         data |-> SubSeq(after, 1, length - 1),
                         rest |-> SubSeq(after, length, Len(after)) ]
             ELSE [ ok |-> TRUE, type |-> type, data |-> << >>, rest |-> after ]

\* nothing was read yet
NoMessage == [ ok |-> FALSE, type |-> 0, data |-> << >>, rest |-> << >> ]

\* int capture_fps = 60 in the configuration
DefaultCaptureFps == 60

\* uint16_t audio_port = 9503 in the configuration
DefaultAudioPort == 9503

\* a Server whose init_audio has not run, before any ConfigResponse (port -1)
NoAudio == [ capture |-> FALSE, encoder |-> FALSE, sender |-> FALSE, initialized |-> FALSE,
             has_client |-> FALSE, capturing |-> FALSE, port |-> -1, sent |-> 0 ]

\* no iteration of the stream loop has run
NoTick == [ fired |-> FALSE, deadline |-> 0, after |-> 0, gap |-> 0 ]

\* the connections carry nothing, the clock is at the start of the first session
StreamInit ==
    /\ ctl_stream = << >>
    /\ ctl_sent = << >>
    /\ ctl_read = NoMessage
    /\ in_queue = << >>
    /\ arrived = 0
    /\ injected = << >>
    /\ capture_fps = DefaultCaptureFps
    /\ clock = 0
    /\ next_frame = 0
    /\ tick = NoTick
    /\ sequences = << >>
    /\ ctl_pending = << >>
    /\ ctl_peer_open = TRUE
    /\ ctl_wait = FALSE
    /\ input_socket = FALSE
    /\ in_peer_open = FALSE
    /\ in_unsent = << >>
    /\ in_bytes = << >>
    /\ in_decoded = << >>
    /\ aud_running = FALSE
    /\ aud_thread = "none"
    /\ aud_stop = [ c \in {"run", "signal"} |-> "idle" ]
    /\ sig_thread = "none"
    /\ aud_joins = 0
    /\ aud_callback = FALSE

\* the messages the receiver writes: their types, the lengths and the filling
\* of their payloads
MaxUnread == 2
PeerTypes == {MSG_KEYFRAME_REQUEST, MSG_PING}
PeerPayloadLengths == {0, 1, 2, 255, 256}
PeerPayload(len) == [i \in 1..len |-> i % 256]

\* the receiver writes a message, framed as send_message frames one
PeerSends ==
    /\ Len(ctl_sent) < MaxUnread
    /\ \E type \in PeerTypes, len \in PeerPayloadLengths :
         LET msg == [ type |-> type, data |-> PeerPayload(len) ]
         IN  /\ ctl_sent' = Append(ctl_sent, msg)
             /\ ctl_stream' = ctl_stream \o SendMessage(msg.type, msg.data)
    /\ UNCHANGED <<ctl_read, arrivalVars, senderVars, sessionVars, historyVars, inputVars,
                   clientVars>>

\* process() finds the socket readable and calls read_message
ReadMessageCall ==
    /\ ctl_stream # << >>
    /\ ctl_read' = ReadMessage(ctl_stream)
    /\ ctl_stream' = ctl_read'.rest
    /\ ctl_sent' = Tail(ctl_sent)
    /\ UNCHANGED <<arrivalVars, senderVars, sessionVars, historyVars, inputVars, clientVars>>

NextStream == PeerSends \/ ReadMessageCall

---------------------------------------------------------------------------
(* UInputBackend: the stylus device *)

\* the driver's flags and the kernel's view of the stylus device
StylusState ==
    [ tool_active |-> m_stylus_tool_active, touching |-> m_stylus_touching,
      pen |-> stylus_dev.pen, rubber |-> stylus_dev.rubber,
      touch |-> stylus_dev.touch, pressure |-> stylus_dev.pressure ]

\* send_stylus, in_range: pen tool when none is active and the eraser is off
StylusPenTool(st, eraser) ==
    IF ~st.tool_active /\ ~eraser
    THEN [st EXCEPT !.pen = TRUE, !.rubber = FALSE, !.tool_active = TRUE]
    ELSE st

\* send_stylus, in_range: rubber tool when the eraser is on and a tool is active
StylusRubberTool(st, eraser) ==
    IF eraser /\ st.tool_active
    THEN [st EXCEPT !.pen = FALSE, !.rubber = TRUE, !.tool_active = FALSE]
    ELSE st

\* send_stylus, in_range: tip transitions, then the pressure of the report
StylusTip(st, tip_down, abs_pressure) ==
    LET t == IF tip_down /\ ~st.touching
             THEN [st EXCEPT !.touching = TRUE, !.touch = TRUE]
             ELSE IF ~tip_down /\ st.touching
             THEN [st EXCEPT !.touching = FALSE, !.touch = FALSE]
             ELSE st
    IN  [t EXCEPT !.pressure = IF t.touching THEN abs_pressure ELSE 0]

\* an out-of-range branch that leaves the tip key as it is
StylusLeaveKeepsTip(st) ==
    [st EXCEPT !.touching = FALSE,
               !.pen = IF st.tool_active THEN FALSE ELSE st.pen,
               !.tool_active = FALSE, !.rubber = FALSE, !.pressure = 0]

\* send_stylus, not in_range: release everything
StylusLeave(st) ==
    [st EXCEPT !.touch = IF st.touching THEN FALSE ELSE st.touch,
               !.touching = FALSE,
               !.pen = IF st.tool_active THEN FALSE ELSE st.pen,
               !.tool_active = FALSE, !.rubber = FALSE, !.pressure = 0]

\* UInputBackend::send_stylus
SendStylus(st, abs_pressure, tip_down, eraser, in_range) ==
    IF in_range
    THEN StylusTip(StylusRubberTool(StylusPenTool(st, eraser), eraser), tip_down, abs_pressure)
    ELSE StylusLeave(st)

---------------------------------------------------------------------------
(* UInputBackend: the touch device *)

Slots == 0..(NumTouchSlots - 1)

\* for (i < 5) if (m_touch_slots[i].active) active_count++
ActiveCount(slots) == Cardinality({ i \in Slots : slots[i].active })

\* the BTN_TOOL_* key of the two switches in the down branch, numbered
\* 1 (FINGER) .. 5 (QUINTTAP): the default case is QUINTTAP
ToolKey(n) == IF n \in 1..(NumTouchSlots - 1) THEN n ELSE NumTouchSlots

\* the driver's slots and the kernel's view of the touch device
TouchState == [ slots |-> m_touch_slots, touch |-> touch_dev.touch,
                tools |-> touch_dev.tools, tracking |-> touch_dev.tracking ]

\* send_touch, down: a slot that is not active becomes active
TouchDownBranch(tc, slot) ==
    IF tc.slots[slot].active THEN tc
    ELSE LET sl == [tc.slots EXCEPT ![slot] = [active |-> TRUE, tracking_id |-> slot]]
             n  == ActiveCount(sl)
         IN  [ slots    |-> sl,
               touch    |-> TRUE,
               tools    |-> (tc.tools \ {ToolKey(n - 1)}) \cup {ToolKey(n)},
               tracking |-> [tc.tracking EXCEPT ![slot] = slot] ]

\* send_touch, up
TouchUpBranch(tc, slot) ==
    LET n == ActiveCount(tc.slots)
    IN  [ slots    |-> [tc.slots EXCEPT ![slot] = [active |-> FALSE, tracking_id |-> -1]],
          touch    |-> FALSE,
          tools    |-> (tc.tools \ {1}) \ (IF n \in 2..NumTouchSlots THEN {n} ELSE {}),
          tracking |-> [tc.tracking EXCEPT ![slot] = -1] ]

\* UInputBackend::send_touch
SendTouch(tc, slot, down) ==
    IF slot < 0 \/ slot >= NumTouchSlots THEN tc
    ELSE IF down THEN TouchDownBranch(tc, slot)
    ELSE TouchUpBranch(tc, slot)

\* the devices right after their creation, and after reset_all
StylusReleased == [ touch |-> FALSE, pen |-> FALSE, rubber |-> FALSE, pressure |-> 0 ]
SlotFree       == [ active |-> FALSE, tracking_id |-> -1 ]
TouchReleased  == [ touch |-> FALSE, tools |-> {}, tracking |-> [i \in Slots |-> -1] ]

\* no stylus event was relayed since the devices were created or found released
NoInput == [ type |-> "none", eraser |-> FALSE, before |-> StylusReleased, active |-> 0 ]

\* what a reset leaves behind: the devices it found, if anything was pressed
LastAfterReset ==
    IF stylus_dev = StylusReleased /\ touch_dev = TouchReleased
    THEN NoInput
    ELSE [ type |-> "RESET", eraser |-> FALSE, before |-> stylus_dev,
           active |-> ActiveCount(m_touch_slots) ]

\* a reset that releases the stylus device only
ResetAllStylusOnly ==
    IF uinput_initialized
    THEN /\ stylus_dev' = StylusReleased
         /\ m_stylus_tool_active' = FALSE
         /\ m_stylus_touching' = FALSE
         /\ last_input' = LastAfterReset
         /\ UNCHANGED <<uinput_initialized, device_log, m_touch_slots, touch_dev, touch_downs>>
    ELSE UNCHANGED inputVars

\* UInputBackend::reset_all, called by Server::run when is_initialized()
ResetAll ==
    IF uinput_initialized
    THEN /\ stylus_dev' = StylusReleased
         /\ m_stylus_tool_active' = FALSE
         /\ m_stylus_touching' = FALSE
         /\ m_touch_slots' = [i \in Slots |-> SlotFree]
         /\ touch_dev' = [ touch |-> FALSE, tools |-> {},
                           tracking |-> [i \in Slots |->
                               IF m_touch_slots[i].active THEN -1 ELSE touch_dev.tracking[i]] ]
         /\ touch_downs' = {}
         /\ last_input' = LastAfterReset
         /\ UNCHANGED <<uinput_initialized, device_log>>
    ELSE UNCHANGED inputVars

\* the devices in the order UInputBackend::init creates them
CreationOrder == << "stylus", "mouse", "touch" >>

\* one entry of device_log: UI_DEV_CREATE succeeded, or UI_DEV_DESTROY and close
DeviceOp(op, dev) == [ op |-> op, dev |-> dev ]

\* UInputBackend::init when the creation of device number `failing` fails
\* (4: none fails): the devices before it are created, then destroyed by the
\* calls of the branch that returns false
InitOps(failing) ==
    CASE failing = 1 -> << >>
      [] failing = 2 -> << DeviceOp("create", "stylus"), DeviceOp("destroy", "stylus") >>
      [] failing = 3 -> << DeviceOp("create", "stylus"), DeviceOp("create", "mouse"),
                           DeviceOp("destroy", "stylus"), DeviceOp("destroy", "mouse") >>
      [] OTHER       -> << DeviceOp("create", "stylus"), DeviceOp("create", "mouse"),
                           DeviceOp("create", "touch") >>

\* destroy_touch_device, destroy_mouse_device, destroy_stylus_device: each
\* acts if its descriptor is open
ShutdownOps(initialized) ==
    IF initialized
    THEN << DeviceOp("destroy", "touch"), DeviceOp("destroy", "mouse"),
            DeviceOp("destroy", "stylus") >>
    ELSE << >>

\* UInputBackend::shutdown: reset_all, then the three devices are destroyed
\* and their descriptors set to -1
Shutdown ==
    /\ stylus_dev' = StylusReleased
    /\ m_stylus_tool_active' = FALSE
    /\ m_stylus_touching' = FALSE
    /\ m_touch_slots' = [i \in Slots |-> SlotFree]
    /\ touch_dev' = TouchReleased
    /\ touch_downs' = {}
    /\ last_input' = LastAfterReset
    /\ uinput_initialized' = FALSE
    /\ device_log' = device_log \o ShutdownOps(uinput_initialized)

---------------------------------------------------------------------------
(* Server::handle_input *)

\* pointer ids of the events: the slots and one id that is no slot
PointerIds == 0..NumTouchSlots

\* the Linux key codes of the key events: KEY_A
KeyCodes == {30}

\* event.pressure in tenths, event.buttons
EventPressures == {0, 10}
EventButtons   == {0, 2, EraserButton}

\* the events the receiver sends; a field that handle_input does not read for
\* the event's type is left 0
InputEvents ==
    { [ type |-> t, pointer_id |-> 0, pressure |-> p, buttons |-> b ] :
        t \in {"STYLUS_DOWN", "STYLUS_MOVE", "STYLUS_UP", "STYLUS_HOVER"},
        p \in EventPressures, b \in EventButtons }
    \cup
    { [ type |-> t, pointer_id |-> id, pressure |-> p, buttons |-> 0 ] :
        t \in {"TOUCH_DOWN", "TOUCH_MOVE", "TOUCH_UP"},
        id \in PointerIds, p \in EventPressures }
    \cup
    { [ type |-> t, pointer_id |-> 0, pressure |-> 0, buttons |-> b ] :
        t \in {"KEY_DOWN", "KEY_UP"}, b \in KeyCodes }

\* static_cast<int>(pressure * ABS_MAXVAL)
AbsPressure(tenths) == (tenths * ABS_MAXVAL) \div 10

\* bool eraser = (event.buttons & 0x20) != 0
Eraser(buttons) == HasFlag(buttons, EraserButton)

\* the stylus after handle_input has relayed the event
StylusAfter(ev) ==
    IF ev.type \in {"STYLUS_DOWN", "STYLUS_MOVE", "STYLUS_HOVER"}
    THEN SendStylus(StylusState, AbsPressure(ev.pressure),
                    ev.type # "STYLUS_HOVER", Eraser(ev.buttons), TRUE)
    ELSE IF ev.type = "STYLUS_UP"
    THEN SendStylus(StylusState, 0, FALSE, FALSE, FALSE)
    ELSE StylusState

\* the touch device after handle_input has relayed the event
TouchAfter(ev) ==
    IF ev.type \in {"TOUCH_DOWN", "TOUCH_MOVE"}
    THEN SendTouch(TouchState, ev.pointer_id, TRUE)
    ELSE IF ev.type = "TOUCH_UP"
    THEN SendTouch(TouchState, ev.pointer_id, FALSE)
    ELSE TouchState

\* the TouchDown events not yet matched by a TouchUp, for the ids that are slots
DownsAfter(ev) ==
    IF ev.pointer_id \notin Slots THEN touch_downs
    ELSE IF ev.type = "TOUCH_DOWN" THEN touch_downs \cup {ev.pointer_id}
    ELSE IF ev.type = "TOUCH_UP" THEN touch_downs \ {ev.pointer_id}
    ELSE touch_downs

\* the stylus event relayed last: its type, its eraser bit and the device before it
LastAfter(ev) ==
    IF ev.type \in {"STYLUS_DOWN", "STYLUS_MOVE", "STYLUS_UP", "STYLUS_HOVER"}
    THEN [ type |-> ev.type, eraser |-> Eraser(ev.buttons), before |-> stylus_dev,
           active |-> 0 ]
    ELSE NoInput

\* a handle_input that does not look at is_initialized()
HandleInputEventUnguarded(ev) ==
    LET st == StylusAfter(ev)
        tc == TouchAfter(ev)
    IN  /\ m_stylus_tool_active' = st.tool_active
        /\ m_stylus_touching' = st.touching
        /\ stylus_dev' = [ touch |-> st.touch, pen |-> st.pen,
                           rubber |-> st.rubber, pressure |-> st.pressure ]
        /\ m_touch_slots' = tc.slots
        /\ touch_dev' = [ touch |-> tc.touch, tools |-> tc.tools,
                          tracking |-> tc.tracking ]
        /\ touch_downs' = DownsAfter(ev)
        /\ last_input' = LastAfter(ev)
        /\ UNCHANGED <<uinput_initialized, device_log>>

\* the callback of InputReceiver::process for one event read
HandleInputEvent(ev) ==
    IF ~uinput_initialized
    THEN UNCHANGED inputVars
    ELSE LET st == StylusAfter(ev)
             tc == TouchAfter(ev)
         IN  /\ m_stylus_tool_active' = st.tool_active
             /\ m_stylus_touching' = st.touching
             /\ stylus_dev' = [ touch |-> st.touch, pen |-> st.pen,
                                rubber |-> st.rubber, pressure |-> st.pressure ]
             /\ m_touch_slots' = tc.slots
             /\ touch_dev' = [ touch |-> tc.touch, tools |-> tc.tools,
                               tracking |-> tc.tracking ]
             /\ touch_downs' = DownsAfter(ev)
             /\ last_input' = LastAfter(ev)
             /\ UNCHANGED <<uinput_initialized, device_log>>

\* UInputBackend::init succeeded or not; nothing is pressed
InputInit ==
    /\ uinput_initialized \in BOOLEAN
    /\ device_log = << >>
    /\ m_stylus_tool_active = FALSE
    /\ m_stylus_touching = FALSE
    /\ stylus_dev = StylusReleased
    /\ m_touch_slots = [i \in Slots |-> SlotFree]
    /\ touch_dev = TouchReleased
    /\ touch_downs = {}
    /\ last_input = NoInput

\* a direct use of the relay: events are handled, the session end resets
HandleInput ==
    /\ \E ev \in InputEvents : HandleInputEvent(ev)
    /\ UNCHANGED <<senderVars, sessionVars, historyVars, clientVars, streamVars>>

ResetAllCall ==
    /\ ResetAll
    /\ UNCHANGED <<senderVars, sessionVars, historyVars, clientVars, streamVars>>

---------------------------------------------------------------------------
(* History of the frames produced *)

NoFrame == [ fn |-> -1, cnt |-> -1, cur |-> FALSE ]

\* a frame of a session that is over
Earlier(f) == IF f = NoFrame THEN f ELSE [f EXCEPT !.cur = FALSE]

NoRequest == [ origin |-> "none", nonkey |-> 0 ]

\* request_keyframe() was called: by the session start, by the message drain
\* or by the adaptive frame rate controller
Requested(origin) == [ origin |-> origin, nonkey |-> 0 ]

\* the encoder produced a frame: a keyframe answers the request, any other
\* frame is counted (up to 2)
AfterFrame(r, key) ==
    IF key \/ r.origin = "none" THEN NoRequest
    ELSE [r EXCEPT !.nonkey = Min(r.nonkey + 1, 2)]

---------------------------------------------------------------------------
(* Server::init_audio, the audio part of a session *)

\* audio_enabled is off, or init_audio fails at one of its four steps, or succeeds
AudioInitOutcomes == {"disabled", "nobackend", "capturefail", "opusfail", "senderfail", "ok"}

\* what Server::init leaves of the audio pipeline: a failed step resets the
\* objects made before it, not its own
AudioAfterInit(outcome) ==
    [ NoAudio EXCEPT
        !.capture     = (outcome = "ok"),
        !.encoder     = (outcome \in {"opusfail", "ok"}),
        !.sender      = (outcome \in {"senderfail", "ok"}),
        !.initialized = (outcome = "ok") ]

\* Server::init, the audio part: a failure is logged and init returns true
InitAudioCall ==
    /\ pc = "accept"
    /\ audio = NoAudio
    /\ \E outcome \in AudioInitOutcomes : audio' = AudioAfterInit(outcome)
    /\ UNCHANGED <<framingVars, pacingVars, inputVars, clientVars>>
    /\ UNCHANGED <<senderVars, sessionVars, historyVars>>

\* a ConfigResponse that always names the configured audio port
AudioPortAlways(a) == DefaultAudioPort

\* int audio_port = m_audio_initialized ? m_config.audio_port : 0
AudioPort(a) == IF a.initialized THEN DefaultAudioPort ELSE 0

\* run() for an accepted client: the ConfigResponse carries the audio port,
\* and with audio initialized the audio sender gets its destination and the
\* capture is started
AudioAfterAccept(a) ==
    LET started == a.initialized /\ a.sender /\ a.capture
    IN  [ a EXCEPT !.port = AudioPort(a),
                   !.has_client = IF started THEN TRUE ELSE @,
                   !.capturing = IF started THEN TRUE ELSE @ ]

\* if (m_audio_capture && m_audio_capture->is_capturing()) m_audio_capture->stop()
AudioStopped(a) == [ a EXCEPT !.capturing = FALSE ]

\* the audio datagrams the model counts
MaxAudio == 2

\* Server::on_audio_frame, called by the running capture: the frame is
\* encoded and sent when encoder and sender exist and the sender has a client
OnAudioFrame ==
    /\ audio.capturing
    /\ audio.sent < MaxAudio
    /\ audio' = IF audio.encoder /\ audio.sender /\ audio.has_client
                THEN [ audio EXCEPT !.sent = @ + 1 ]
                ELSE audio
    /\ UNCHANGED <<framingVars, pacingVars, inputVars, clientVars>>
    /\ UNCHANGED <<senderVars, sessionVars, historyVars>>

---------------------------------------------------------------------------
(* Server::run *)

Init ==
    /\ m_client_set = FALSE
    /\ wire = << >>
    /\ sleeps = << >>
    /\ pc = "accept"
    /\ m_running = TRUE
    /\ m_client_connected = FALSE
    /\ ctl_last = [ msg |-> "none", forwarded |-> 0 ]
    /\ m_force_keyframe = FALSE
    /\ enc_queue = << >>
    /\ enc_since_key = GopSize
    /\ m_frame_count = 0
    /\ emitted_last = NoFrame
    /\ produced_key = FALSE
    /\ request = NoRequest
    /\ InputInit
    /\ listen_queue = << >>
    /\ ctl_leaked = 0
    /\ m_client_socket = 0
    /\ m_client_addr = 0
    /\ StreamInit
    /\ m_sequence = 0
    /\ audio = NoAudio
    /\ pacing_config = DefaultPacingConfig
    /\ m_pacing_mode = "LIGHT"
    /\ client_host = NoHost

\* the frame counter of a new session
SessionStartFrameCount == 0

\* a counter that is never advanced
NextFrameCountSame(c) == c

\* m_frame_count++ after a frame was encoded
NextFrameCount(c) == c + 1

\* while (m_running && m_control->is_client_connected())
StreamLoopTestConnectedOnly == m_client_connected

\* while (m_running && m_control->is_client_connected())
StreamLoopTest == m_running /\ m_client_connected

\* m_client_socket = accept(...): the descriptor m_client_socket held, if it
\* was open, is overwritten and its socket can no longer be closed
LeakedAfterAccept == IF m_client_socket # 0 THEN ctl_leaked + 1 ELSE ctl_leaked

\* accept_client succeeded, ConfigResponse sent, destination set, counter
\* reset and the initial keyframe requested: the stream loop is entered.
\* accept() blocks until a receiver connects, with no timeout; run() does not
\* look at m_running between the return of accept_client and the stream loop
AcceptClient ==
    /\ UNCHANGED <<inputVars, framingVars>>
    /\ pc = "accept"
    /\ audio' = AudioAfterAccept(audio)
    /\ \E r \in AcceptSource :
         /\ m_client_socket' = r
         /\ m_client_addr' = SetClientAddr(r, m_client_addr)
         /\ SetClientPacing(ReceiverAddr(r), pacing_config.pacing_mode)
    /\ ctl_leaked' = LeakedAfterAccept
    /\ listen_queue' = QueueAfterAccept
    /\ m_client_connected' = TRUE
    /\ m_client_set' = TRUE
    /\ m_frame_count' = SessionStartFrameCount
    /\ m_force_keyframe' = RequestKeyframe
    /\ request' = Requested("session")
    /\ emitted_last' = Earlier(emitted_last)
    /\ pc' = "control"
    /\ UNCHANGED <<wire, sleeps, m_running, ctl_last, enc_queue, enc_since_key, produced_key>>

\* stop() was called: the test of the outer loop fails, or accept() fails
\* with EINTR where the signal interrupts it, and run() leaves its loop
AcceptStopped ==
    /\ UNCHANGED <<inputVars, clientVars, streamVars>>
    /\ pc = "accept"
    /\ ~m_running
    /\ pc' = "stopped"
    /\ UNCHANGED <<senderVars, m_running, m_client_connected, ctl_last,
                   m_force_keyframe, enc_queue, enc_since_key, m_frame_count, historyVars>>

\* top of the stream loop with the session live: m_control->process() reads
\* at most one message, "none" when select() finds nothing to read
\* (m_input_receiver->process() follows: see HandleInput)
ControlProcess ==
    /\ UNCHANGED <<inputVars, clientVars, streamVars>>
    /\ pc = "control"
    /\ StreamLoopTest
    /\ \E msg \in ControlMessages \cup {"none"} :
         LET calls == KeyframeCallbackCalls(msg)
         IN  /\ ctl_last' = [ msg |-> msg, forwarded |-> calls ]
             /\ m_client_connected' = ConnectedAfter(msg)
             /\ m_force_keyframe' = IF calls > 0 THEN RequestKeyframe ELSE m_force_keyframe
             /\ request' = IF calls > 0 THEN Requested("drain") ELSE request
    /\ wire' = << >>
    /\ sleeps' = << >>
    /\ pc' = "frame"
    /\ UNCHANGED <<m_client_set, m_running, enc_queue, enc_since_key, m_frame_count,
                   emitted_last, produced_key>>

\* sizes of the packets the codec outputs in a session
SessionSizes == {MAX_PAYLOAD_SIZE}

\* the model follows a session for MaxFrames frames from its start, and for
\* MaxFrames frames past the wrap of the 16-bit frame number
FrameBudget == m_frame_count \notin {MaxFrames, FrameNumberModulus + MaxFrames}

\* rest of the loop body: the frame is not due yet
FrameNotDue ==
    /\ UNCHANGED <<inputVars, clientVars, streamVars>>
    /\ pc = "frame"
    /\ pc' = "control"
    /\ ctl_last' = [ msg |-> "none", forwarded |-> 0 ]
    /\ UNCHANGED <<senderVars, m_running, m_client_connected,
                   m_force_keyframe, enc_queue, enc_since_key, m_frame_count, historyVars>>

\* after capture_and_encode_loop, a session with an adaptive frame rate
\* controller calls request_keyframe() when needs_keyframe() says so
AfterAdaptive(needsKeyframe, force) == IF needsKeyframe THEN RequestKeyframe ELSE force

\* a capture failure that ends the session
CaptureFailsEndsSession ==
    /\ UNCHANGED <<inputVars, clientVars, streamVars>>
    /\ pc = "frame"
    /\ \E needsKeyframe \in BOOLEAN :
         /\ m_force_keyframe' = AfterAdaptive(needsKeyframe, m_force_keyframe)
         /\ request' = IF needsKeyframe THEN Requested("adaptive") ELSE request
    /\ pc' = "control"
    /\ ctl_last' = [ msg |-> "none", forwarded |-> 0 ]
    /\ m_client_connected' = FALSE
    /\ UNCHANGED <<senderVars, m_running,
                   enc_queue, enc_since_key, m_frame_count, emitted_last, produced_key>>

\* rest of the loop body: capture_and_encode_loop, where capture_frame fails
CaptureFails ==
    /\ UNCHANGED <<inputVars, clientVars, streamVars>>
    /\ pc = "frame"
    /\ \E needsKeyframe \in BOOLEAN :
         /\ m_force_keyframe' = AfterAdaptive(needsKeyframe, m_force_keyframe)
         /\ request' = IF needsKeyframe THEN Requested("adaptive") ELSE request
    /\ pc' = "control"
    /\ ctl_last' = [ msg |-> "none", forwarded |-> 0 ]
    /\ UNCHANGED <<senderVars, m_running, m_client_connected,
                   enc_queue, enc_since_key, m_frame_count, emitted_last, produced_key>>

\* capture_and_encode_loop with a captured frame: encode, and if a frame
\* comes out send it as m_frame_count and count it
CaptureAndEncode ==
    /\ UNCHANGED <<inputVars, clientVars, streamVars>>
    /\ pc = "frame"
    /\ FrameBudget
    /\ \E uploadOk \in BOOLEAN, sendOk \in BOOLEAN, recv \in RecvOutcomes,
          needsKeyframe \in BOOLEAN :
         LET e == Encode(uploadOk, sendOk, recv)
             r == IF e.ok THEN AfterFrame(request, e.key) ELSE request
         IN  /\ m_force_keyframe' = AfterAdaptive(needsKeyframe, e.force)
             /\ request' = IF needsKeyframe THEN Requested("adaptive") ELSE r
             /\ enc_queue' = e.queue
             /\ enc_since_key' = e.since
             /\ IF e.ok
                THEN \E size \in SessionSizes :
                       \E okPackets \in 0..NumFragments(size) :
                          /\ SendFrame(size, m_frame_count, e.key, okPackets)
                          /\ m_frame_count' = NextFrameCount(m_frame_count)
                          /\ produced_key' = e.key
                          /\ emitted_last' =
                               IF wire' # << >>
                               THEN [ fn  |-> wire'[1].frame_number,
                                      cnt |-> m_frame_count,
                                      cur |-> TRUE ]
                               ELSE emitted_last
                ELSE UNCHANGED <<senderVars, m_frame_count, emitted_last, produced_key>>
    /\ pc' = "control"
    /\ ctl_last' = [ msg |-> "none", forwarded |-> 0 ]
    /\ UNCHANGED <<m_running, m_client_connected>>

\* the stream loop's condition fails: the session is over. While running,
\* the input devices and the control connection are reset and the next
\* client awaited
SessionEnd ==
    /\ pc = "control"
    /\ ~StreamLoopTest
    /\ IF m_running
       THEN /\ audio' = AudioStopped(audio)
            /\ ResetAll
            /\ m_client_connected' = FALSE
            /\ m_client_socket' = 0
            /\ pc' = "accept"
       ELSE /\ pc' = "stopped"
            /\ UNCHANGED <<m_client_connected, inputVars, m_client_socket, audio>>
    /\ UNCHANGED <<listen_queue, m_client_addr, ctl_leaked, framingVars, pacingVars>>
    /\ UNCHANGED <<senderVars, m_running, ctl_last, m_force_keyframe, enc_queue,
                   enc_since_key, m_frame_count, historyVars>>

\* Server::stop, from the signal handler
Stop ==
    /\ UNCHANGED <<inputVars, clientVars, framingVars, pacingVars>>
    /\ m_running
    /\ pc # "stopped"
    /\ m_running' = FALSE
    /\ audio' = AudioStopped(audio)
    /\ UNCHANGED <<senderVars, pc, m_client_connected, ctl_last,
                   m_force_keyframe, enc_queue, enc_since_key, m_frame_count, historyVars>>

Next ==
    \/ AcceptClient
    \/ AcceptStopped
    \/ ControlProcess
    \/ FrameNotDue
    \/ CaptureFails
    \/ CaptureAndEncode
    \/ SessionEnd
    \/ Stop

Spec == Init /\ [][Next]_vars

\* a session that has run for almost 2^16 frames
InitLateSession ==
    /\ m_client_set = TRUE
    /\ wire = << >>
    /\ sleeps = << >>
    /\ pc = "control"
    /\ m_running = TRUE
    /\ m_client_connected = TRUE
    /\ ctl_last = [ msg |-> "none", forwarded |-> 0 ]
    /\ m_force_keyframe = FALSE
    /\ enc_queue = << >>
    /\ enc_since_key \in 1..GopSize
    /\ m_frame_count = FrameNumberModulus - 2
    /\ emitted_last = [ fn  |-> FrameNumberModulus - 3,
                        cnt |-> FrameNumberModulus - 3, cur |-> TRUE ]
    /\ produced_key = FALSE
    /\ request = NoRequest
    /\ InputInit
    /\ listen_queue = << >>
    /\ ctl_leaked = 0
    /\ m_client_socket \in ArrivingReceivers
    /\ m_client_addr = m_client_socket
    /\ StreamInit
    /\ audio = AudioAfterAccept(NoAudio)
    /\ pacing_config = DefaultPacingConfig
    /\ m_pacing_mode = DefaultPacingConfig.pacing_mode
    /\ client_host = ReceiverAddr(m_client_socket)

\* the session specifications leave the sequence counter where it starts
InitLate == InitLateSession /\ m_sequence = 0

SpecLate == (Init \/ InitLate) /\ [][Next]_vars

NextSender == SetClient \/ SendFrameCall

SpecSender == Init /\ [][NextSender]_vars

NextInput == HandleInput \/ ResetAllCall

SpecInput == Init /\ [][NextInput]_vars

---------------------------------------------------------------------------
(* The input relay inside the session loop, and the ways the process ends *)

\* the largest pointer id the receiver uses in the relay's sessions
MaxRelayPointer == 1

\* the events of those sessions
RelayEvents ==
    { ev \in InputEvents :
        /\ ev.pointer_id <= MaxRelayPointer
        /\ ev.pressure = 10
        /\ ev.buttons \in {0, EraserButton} }

\* m_input_receiver->process() in the stream loop: the callback runs
\* handle_input on an event read from the input connection
RelayInput ==
    /\ pc = "frame"
    /\ \E ev \in RelayEvents : HandleInputEvent(ev)
    /\ UNCHANGED <<senderVars, sessionVars, historyVars, clientVars, streamVars>>

\* run() has returned: main returns and ~Server destroys the UInputBackend,
\* whose shutdown() calls reset_all and destroys the devices
Destroy ==
    /\ pc = "stopped"
    /\ Shutdown
    /\ m_client_socket' = 0
    /\ listen_queue' = << >>
    /\ pc' = "exited"
    /\ UNCHANGED <<m_client_addr, ctl_leaked, streamVars>>
    /\ UNCHANGED <<senderVars, m_running, m_client_connected, ctl_last,
                   m_force_keyframe, enc_queue, enc_since_key, m_frame_count, historyVars>>

\* a second signal: the handler calls exit(0), which does not destroy the
\* Server object of main's frame
SecondSignal ==
    /\ ~m_running
    /\ pc \notin {"exited", "forced"}
    /\ pc' = "forced"
    /\ UNCHANGED <<senderVars, m_running, m_client_connected, ctl_last,
                   m_force_keyframe, enc_queue, enc_since_key, m_frame_count,
                   historyVars, inputVars, clientVars, streamVars>>

\* a receiver connects to the control port: the kernel queues the connection
\* until accept() takes it, and refuses it when the queue is full
Connect ==
    /\ pc \notin {"exited", "forced"}
    /\ Len(listen_queue) < ListenBacklog
    /\ \E r \in Receivers : listen_queue' = Append(listen_queue, r)
    /\ UNCHANGED <<senderVars, sessionVars, historyVars, inputVars,
                   m_client_socket, m_client_addr, ctl_leaked, streamVars>>

\* accept_client fails after accept(): the TLS handshake fails (the socket is
\* closed) or the first message is no ConfigRequest (it is left open); run()
\* sleeps and calls accept_client again
AcceptRejected ==
    /\ pc = "accept"
    /\ m_running
    /\ ctl_leaked < MaxLeaked
    /\ \E r \in AcceptSource, tlsFailed \in BOOLEAN :
         m_client_socket' = IF tlsFailed THEN 0 ELSE r
    /\ ctl_leaked' = LeakedAfterAccept
    /\ listen_queue' = QueueAfterAccept
    /\ UNCHANGED <<senderVars, sessionVars, historyVars, inputVars, m_client_addr,
                   streamVars>>

\* the sessions of several receivers, without the frames
NextClients ==
    \/ Connect
    \/ AcceptClient
    \/ AcceptRejected
    \/ AcceptStopped
    \/ ControlProcess
    \/ FrameNotDue
    \/ SessionEnd
    \/ Stop

SpecClients == Init /\ [][NextClients]_vars

SpecStream == Init /\ [][NextStream]_vars

\* how many events the receiver sends in the sessions followed below
MaxArrivals == 3

\* those events
ArrivalEvents ==
    { ev \in InputEvents :
        /\ ev.type \in {"STYLUS_DOWN", "STYLUS_UP", "TOUCH_DOWN", "TOUCH_MOVE", "TOUCH_UP",
                        "KEY_DOWN", "KEY_UP"}
        /\ ev.pointer_id <= MaxRelayPointer
        /\ ev.type \in {"KEY_DOWN", "KEY_UP"} \/ (ev.pressure = 10 /\ ev.buttons = 0) }

\* the device handle_input writes the event to, "none" when it writes nothing
DeviceOf(ev) ==
    IF ~uinput_initialized THEN "none"
    ELSE IF ev.type \in {"STYLUS_DOWN", "STYLUS_MOVE", "STYLUS_HOVER", "STYLUS_UP"} THEN "stylus"
    ELSE IF ev.type \in {"TOUCH_DOWN", "TOUCH_MOVE", "TOUCH_UP"} /\ ev.pointer_id \in Slots
         THEN "touch"
    ELSE "none"

\* a read_event that takes the event that arrived last
NextEventNewest(queue) == queue[Len(queue)]

\* the event read_event returns: the oldest one of the connection's stream
NextEvent(queue) == Head(queue)

\* an event arrives on the input connection
Arrive ==
    /\ arrived < MaxArrivals
    /\ \E ev \in ArrivalEvents :
         in_queue' = Append(in_queue, [ ev |-> ev, seq |-> arrived + 1 ])
    /\ arrived' = arrived + 1
    /\ UNCHANGED <<injected, otherVars, ctl_stream, ctl_sent, ctl_read, senderVars,
                   sessionVars, historyVars, inputVars, clientVars>>

\* one turn of the loop of InputReceiver::process: read_event returns an
\* event and the callback, Server::handle_input, runs on it
ReadEvent ==
    /\ in_queue # << >>
    /\ LET e == NextEvent(in_queue)
       IN  /\ HandleInputEvent(e.ev)
           /\ injected' = IF ~uinput_initialized \/ DeviceOf(e.ev) = "none"
                          THEN injected
                          ELSE Append(injected, [ seq |-> e.seq, device |-> DeviceOf(e.ev),
                                                  slot |-> e.ev.pointer_id ])
    /\ in_queue' = Tail(in_queue)
    /\ UNCHANGED <<arrived, otherVars, ctl_stream, ctl_sent, ctl_read, senderVars,
                   sessionVars, historyVars, clientVars>>

NextArrival == Arrive \/ ReadEvent

SpecArrival == Init /\ [][NextArrival]_vars

NextRelay ==
    \/ AcceptClient
    \/ AcceptStopped
    \/ ControlProcess
    \/ RelayInput
    \/ FrameNotDue
    \/ SessionEnd
    \/ Stop
    \/ Destroy
    \/ SecondSignal

SpecRelay == Init /\ [][NextRelay]_vars

---------------------------------------------------------------------------
(* Server::run: the pacing of the stream loop *)

\* the values of the -f option
OptionFps == {0, 1, 60, 120, 500}

\* case 'f': the option is clamped to 1..120
ClampFps(f) == IF f < 1 THEN 1 ELSE IF f > 120 THEN 120 ELSE f

\* main parses -f before the server is started
SetCaptureFps ==
    /\ pc = "accept"
    /\ tick = NoTick
    /\ \E f \in OptionFps : capture_fps' = ClampFps(f)
    /\ UNCHANGED <<clock, next_frame, tick, audio, pacingVars, sequenceVars, in_queue,
                   arrived, injected, ctl_stream, ctl_sent, ctl_read, detailVars>>
    /\ UNCHANGED <<senderVars, sessionVars, historyVars, inputVars, clientVars>>

\* frame_interval = microseconds(1000000 / capture_fps)
FrameInterval(fps) == 1000000 \div fps

\* if (next_frame < now), with the now read at the head of the iteration
Behind(advanced, now) == advanced < now

\* the sleep at the end of an iteration: above 90 fps 60% of the time left
\* when more than 2 ms are left and 100 us when more than 500 us are left;
\* otherwise half of the time left when more than 1 ms is left and 50 us
\* when more than 100 us are left; no sleep below that
SleepFor(fps, time_to_next) ==
    IF fps > 90
    THEN IF time_to_next > 2000 THEN (time_to_next * 6) \div 10
         ELSE IF time_to_next > 500 THEN 100
         ELSE 0
    ELSE IF time_to_next > 1000 THEN time_to_next \div 2
         ELSE IF time_to_next > 100 THEN 50
         ELSE 0

\* how long the two process() calls of an iteration take, and how long
\* capture_and_encode_loop takes
ProcessTimes == {20, 300}
CaptureTimes == {2000, 20000}

\* the loop is followed for MaxTicks frame intervals
MaxTicks == 3

\* one iteration of the stream loop, as far as time goes: now is read, the
\* connections are processed, the frame is captured when due and the deadline
\* advanced, and the thread sleeps
StreamLoopTiming ==
    /\ pc = "control"
    /\ StreamLoopTest
    /\ clock < MaxTicks * FrameInterval(capture_fps)
    /\ \E p \in ProcessTimes, c \in CaptureTimes :
         LET now      == clock
             due      == now >= next_frame
             after    == now + p + (IF due THEN c ELSE 0)
             advanced == next_frame + FrameInterval(capture_fps)
             nf       == IF ~due THEN next_frame
                         ELSE IF Behind(advanced, now)
                              THEN now + FrameInterval(capture_fps)
                              ELSE advanced
             wake     == after + SleepFor(capture_fps, nf - after)
         IN  /\ next_frame' = nf
             /\ clock' = wake
             /\ tick' = [ fired |-> due, deadline |-> next_frame,
                          after |-> after, gap |-> wake - now ]
    /\ UNCHANGED <<capture_fps, audio, pacingVars, sequenceVars, in_queue, arrived,
                   injected, ctl_stream, ctl_sent, ctl_read, detailVars>>
    /\ UNCHANGED <<senderVars, sessionVars, historyVars, inputVars, clientVars>>

NextCadence == SetCaptureFps \/ AcceptClient \/ StreamLoopTiming

SpecCadence == Init /\ [][NextCadence]_vars

NextAudio ==
    \/ InitAudioCall
    \/ AcceptClient
    \/ ControlProcess
    \/ FrameNotDue
    \/ OnAudioFrame
    \/ SessionEnd
    \/ Stop
    \/ AcceptStopped

SpecAudio == Init /\ [][NextAudio]_vars

SpecPacing == Init /\ [][NextPacing]_vars

\* the sender used directly, from its start and from a counter near its wrap
InitSequence ==
    \/ Init /\ uinput_initialized
    \/ /\ InitLateSession
       /\ uinput_initialized
       /\ enc_since_key = GopSize
       /\ m_sequence = SequenceModulus - 2

SpecSequence == InitSequence /\ [][NextSender]_vars

\* the sender used directly with every pacing mode and with frames around
\* the sizes send_frame and set_client compare with
PacedSizes ==
    {2400, 2401, 4800, 4801, 9600, 9601, 50000, 50001, 100000, 100001,
     300000, 300001, 500000, 500001}

\* set_client(host, port, mode) with any mode
SetClientMode ==
    /\ \E host \in ArrivingReceivers, mode \in PacingModes :
         SetClientPacing(ReceiverAddr(host), mode)
    /\ m_client_set' = TRUE
    /\ UNCHANGED <<wire, sleeps, framingVars, audio, inputVars, clientVars>>
    /\ UNCHANGED <<sessionVars, historyVars>>

\* send_frame of the first frame of the sender: every send_packet succeeds,
\* or the last one fails, or the ninth
SendPacedFrame ==
    /\ UNCHANGED <<inputVars, clientVars, ctl_stream, ctl_sent, ctl_read, in_queue, arrived,
                   injected, cadenceVars, audio, pacingVars, detailVars>>
    /\ UNCHANGED <<sessionVars, historyVars>>
    /\ m_sequence = 0
    /\ \E size \in PacedSizes, keyframe \in BOOLEAN :
         \E okPackets \in {NumFragments(size), NumFragments(size) - 1, Min(NumFragments(size), 8)} :
            /\ SendFrame(size, 0, keyframe, okPackets)
            /\ SendFrameSequence(size, okPackets)

\* the input backend used directly: init on a backend without devices, with
\* any of the three creations failing or none, and shutdown
UInputInit ==
    /\ ~uinput_initialized
    /\ Len(device_log) + 4 <= MaxDeviceOps
    /\ \E failing \in 1..4 :
         /\ device_log' = device_log \o InitOps(failing)
         /\ uinput_initialized' = (failing = 4)
    /\ UNCHANGED <<m_stylus_tool_active, m_stylus_touching, stylus_dev, m_touch_slots,
                   touch_dev, touch_downs, last_input>>
    /\ UNCHANGED <<senderVars, sessionVars, historyVars, clientVars, streamVars>>

UInputShutdown ==
    /\ Shutdown
    /\ UNCHANGED <<senderVars, sessionVars, historyVars, clientVars, streamVars>>

NextDevices == UInputInit \/ UInputShutdown

SpecDevices == Init /\ [][NextDevices]_vars

\* ControlServer::process used directly on a connection whose bytes arrive
\* in pieces
MSG_DISCONNECT == 8

\* the receiver starts a message: its bytes are written by PeerWrites
PeerBegins ==
    /\ ctl_peer_open
    /\ ctl_pending = << >>
    /\ Len(ctl_stream) <= MaxUnreadBytes
    /\ \E type \in PeerTypes \cup {MSG_DISCONNECT}, len \in {0, 2} :
         ctl_pending' = SendMessage(type, PeerPayload(len))
    /\ UNCHANGED <<ctl_peer_open, ctl_wait, ctl_stream, ctl_sent, ctl_read>>
    /\ UNCHANGED <<in_queue, arrived, injected, cadenceVars, audio, pacingVars, sequenceVars,
                   inputStreamVars, threadVars>>
    /\ UNCHANGED <<senderVars, sessionVars, historyVars, inputVars, clientVars>>

\* TCP delivers some of the bytes written
PeerWrites ==
    /\ ctl_peer_open
    /\ ctl_pending # << >>
    /\ \E n \in 1..Len(ctl_pending) :
         /\ ctl_stream' = ctl_stream \o SubSeq(ctl_pending, 1, n)
         /\ ctl_pending' = SubSeq(ctl_pending, n + 1, Len(ctl_pending))
    /\ UNCHANGED <<ctl_peer_open, ctl_wait, ctl_sent, ctl_read>>
    /\ UNCHANGED <<in_queue, arrived, injected, cadenceVars, audio, pacingVars, sequenceVars,
                   inputStreamVars, threadVars>>
    /\ UNCHANGED <<senderVars, sessionVars, historyVars, inputVars, clientVars>>

\* the receiver closes the connection; what it had not written is lost
PeerCloses ==
    /\ ctl_peer_open
    /\ ctl_peer_open' = FALSE
    /\ ctl_pending' = << >>
    /\ UNCHANGED <<ctl_wait, ctl_stream, ctl_sent, ctl_read>>
    /\ UNCHANGED <<in_queue, arrived, injected, cadenceVars, audio, pacingVars, sequenceVars,
                   inputStreamVars, threadVars>>
    /\ UNCHANGED <<senderVars, sessionVars, historyVars, inputVars, clientVars>>

\* select(..., tv = {0, 0}) > 0: bytes are waiting, or the end of the stream
Readable == ctl_stream # << >> \/ ~ctl_peer_open

\* the two recv(..., MSG_WAITALL) of read_message have all the bytes they ask for
MessageComplete(stream) ==
    /\ Len(stream) >= 3
    /\ Len(stream) - 3 >= LengthField(stream[1], stream[2]) - 1

\* the name ControlProcess gives the message read
MessageName(m) ==
    IF ~m.ok THEN "EOF"
    ELSE IF m.type = MSG_KEYFRAME_REQUEST THEN "KEYFRAME_REQUEST"
    ELSE IF m.type = MSG_PING THEN "PING"
    ELSE IF m.type = MSG_DISCONNECT THEN "DISCONNECT"
    ELSE "OTHER"

\* read_message returned, and process() with it
ProcessReturns ==
    /\ ctl_read' = ReadMessage(ctl_stream)
    /\ ctl_stream' = ctl_read'.rest
    /\ ctl_wait' = FALSE
    /\ m_client_connected' = ConnectedAfter(MessageName(ctl_read'))
    /\ m_force_keyframe' = IF KeyframeCallbackCalls(MessageName(ctl_read')) > 0
                           THEN RequestKeyframe ELSE m_force_keyframe

\* process(): returns at once when select finds nothing; else read_message,
\* whose recv calls return when the bytes asked for are there or the stream
\* has ended
ProcessCall ==
    /\ m_client_connected
    /\ ~ctl_wait
    /\ IF ~Readable
       THEN /\ ctl_read' = NoMessage
            /\ UNCHANGED <<ctl_stream, ctl_wait, m_client_connected, m_force_keyframe>>
       ELSE IF MessageComplete(ctl_stream) \/ ~ctl_peer_open
       THEN ProcessReturns
       ELSE /\ ctl_wait' = TRUE
            /\ UNCHANGED <<ctl_stream, ctl_read, m_client_connected, m_force_keyframe>>
    /\ UNCHANGED <<ctl_pending, ctl_peer_open, ctl_sent>>
    /\ UNCHANGED <<in_queue, arrived, injected, cadenceVars, audio, pacingVars, sequenceVars,
                   inputStreamVars, threadVars>>
    /\ UNCHANGED <<pc, m_running, ctl_last, enc_queue, enc_since_key, m_frame_count>>
    /\ UNCHANGED <<senderVars, historyVars, inputVars, clientVars>>

\* the recv process() waits in returns
ProcessResumes ==
    /\ ctl_wait
    /\ MessageComplete(ctl_stream) \/ ~ctl_peer_open
    /\ ProcessReturns
    /\ UNCHANGED <<ctl_pending, ctl_peer_open, ctl_sent>>
    /\ UNCHANGED <<in_queue, arrived, injected, cadenceVars, audio, pacingVars, sequenceVars,
                   inputStreamVars, threadVars>>
    /\ UNCHANGED <<pc, m_running, ctl_last, enc_queue, enc_since_key, m_frame_count>>
    /\ UNCHANGED <<senderVars, historyVars, inputVars, clientVars>>

\* a session whose handshake is over
InitPartial ==
    /\ InitLateSession
    /\ m_sequence = 0
    /\ uinput_initialized
    /\ enc_since_key = GopSize

NextPartial == PeerBegins \/ PeerWrites \/ PeerCloses \/ ProcessCall \/ ProcessResumes

SpecPartial == InitPartial /\ [][NextPartial]_vars

\* InputReceiver::process used directly on a connection whose bytes arrive
\* in pieces. sizeof(InputEventPacket)
RecordSize == 28

\* byte number off (from 0) of the k-th record the peer writes: the bytes of
\* the stream are told apart by their place
RecordByte(k, off) == (k - 1) * RecordSize + off

\* the k-th record the peer writes
RecordBytes(k) == [ i \in 1..RecordSize |-> RecordByte(k, i - 1) ]

\* process() without a client: select finds the listening socket readable
\* and accept_client accepts the peer
InputAccept ==
    /\ ~input_socket
    /\ ~in_peer_open
    /\ arrived = 0
    /\ input_socket' = TRUE
    /\ in_peer_open' = TRUE
    /\ UNCHANGED <<in_unsent, in_bytes, in_decoded>>
    /\ UNCHANGED <<ctl_stream, ctl_sent, ctl_read, in_queue, arrived, injected, cadenceVars,
                   audio, pacingVars, sequenceVars, partialVars, threadVars>>
    /\ UNCHANGED <<senderVars, sessionVars, historyVars, inputVars, clientVars>>

\* the peer writes its next record
PeerStreams ==
    /\ in_peer_open
    /\ arrived < MaxRecords
    /\ in_unsent' = in_unsent \o RecordBytes(arrived + 1)
    /\ arrived' = arrived + 1
    /\ UNCHANGED <<input_socket, in_peer_open, in_bytes, in_decoded>>
    /\ UNCHANGED <<ctl_stream, ctl_sent, ctl_read, in_queue, injected, cadenceVars,
                   audio, pacingVars, sequenceVars, partialVars, threadVars>>
    /\ UNCHANGED <<senderVars, sessionVars, historyVars, inputVars, clientVars>>

\* how many bytes TCP delivers at a time
DeliverySizes(len) == {n \in {1, RecordSize - 1, RecordSize, len} : n <= len}

\* TCP delivers some of the bytes written
DeliverBytes ==
    /\ in_unsent # << >>
    /\ \E n \in DeliverySizes(Len(in_unsent)) :
         /\ in_bytes' = in_bytes \o SubSeq(in_unsent, 1, n)
         /\ in_unsent' = SubSeq(in_unsent, n + 1, Len(in_unsent))
    /\ UNCHANGED <<input_socket, in_peer_open, in_decoded>>
    /\ UNCHANGED <<ctl_stream, ctl_sent, ctl_read, in_queue, arrived, injected, cadenceVars,
                   audio, pacingVars, sequenceVars, partialVars, threadVars>>
    /\ UNCHANGED <<senderVars, sessionVars, historyVars, inputVars, clientVars>>

\* the peer closes the input connection
InputPeerCloses ==
    /\ in_peer_open
    /\ in_peer_open' = FALSE
    /\ UNCHANGED <<input_socket, in_unsent, in_bytes, in_decoded>>
    /\ UNCHANGED <<ctl_stream, ctl_sent, ctl_read, in_queue, arrived, injected, cadenceVars,
                   audio, pacingVars, sequenceVars, partialVars, threadVars>>
    /\ UNCHANGED <<senderVars, sessionVars, historyVars, inputVars, clientVars>>

\* read_event: n = recv(m_client_socket, &packet, sizeof(packet), MSG_DONTWAIT)
\* takes the bytes that wait, up to sizeof(packet); the packet is returned
\* when n == sizeof(packet); n == 0, the end of the stream, closes the socket
ReadEvent28(bytes, eof) ==
    IF Len(bytes) >= RecordSize
    THEN [ ok |-> TRUE, packet |-> SubSeq(bytes, 1, RecordSize),
           rest |-> SubSeq(bytes, RecordSize + 1, Len(bytes)), closed |-> FALSE ]
    ELSE [ ok |-> FALSE, packet |-> << >>, rest |-> << >>,
           closed |-> bytes = << >> /\ eof ]

RECURSIVE ReadLoop(_, _, _)
\* while (read_event(event)) m_callback(event): the packets passed to the
\* callback, the bytes left in the socket, and whether the socket was closed
ReadLoop(bytes, eof, packets) ==
    LET r == ReadEvent28(bytes, eof)
    IN  IF r.ok THEN ReadLoop(r.rest, eof, Append(packets, r.packet))
        ELSE [ packets |-> packets, rest |-> r.rest, closed |-> r.closed ]

\* process() with a client
ProcessBytes ==
    /\ input_socket
    /\ LET r == ReadLoop(in_bytes, ~in_peer_open /\ in_unsent = << >>, << >>)
       IN  /\ in_decoded' = in_decoded \o r.packets
           /\ in_bytes' = r.rest
           /\ input_socket' = ~r.closed
    /\ UNCHANGED <<in_peer_open, in_unsent>>
    /\ UNCHANGED <<ctl_stream, ctl_sent, ctl_read, in_queue, arrived, injected, cadenceVars,
                   audio, pacingVars, sequenceVars, partialVars, threadVars>>
    /\ UNCHANGED <<senderVars, sessionVars, historyVars, inputVars, clientVars>>

NextBytes == InputAccept \/ PeerStreams \/ DeliverBytes \/ InputPeerCloses \/ ProcessBytes

SpecBytes == Init /\ [][NextBytes]_vars

\* the input connection of a session, its events arriving whole, until the
\* peer closes it
ArriveConnected == in_peer_open /\ Arrive

ReadEventConnected == input_socket /\ ReadEvent

\* process() when every event was read: read_event finds nothing, or the end
\* of the stream
ReadNothing == in_queue = << >> /\ ProcessBytes

NextInputLoss ==
    \/ InputAccept
    \/ ArriveConnected
    \/ ReadEventConnected
    \/ InputPeerCloses
    \/ ReadNothing

SpecInputLoss == Init /\ [][NextInputLoss]_vars

\* the audio backend used as Server uses it, its capture thread and the
\* callers of stop() taking their steps one at a time
StopCallers == {"run", "signal"}

\* the threads a signal can be delivered to: none of them blocks it
HandlerThreads == {"main", "capture", "other"}

\* the thread a caller of stop() runs on: run() on the main thread, the
\* handler on the thread the signal was delivered to
ThreadOf(c) == IF c = "run" THEN "main" ELSE sig_thread

\* the caller is inside stop()
InStop(c) == aud_stop[c] \in {"entered", "jointest", "joining", "cleanup", "selfjoin"}

\* a thread runs its own code while no signal handler runs on top of it
Runs(t) == ~(sig_thread = t /\ InStop("signal"))

\* a stop() call has returned since the capture was started
StopReturned == \E c \in StopCallers : aud_stop[c] = "returned"

\* an exception left a signal handler: the process has terminated
Terminated == \E c \in StopCallers : aud_stop[c] = "threw"

\* Server::init succeeded with audio
InitAudioThread ==
    /\ Init
    /\ uinput_initialized

\* Server::init_audio succeeds
AudioReady ==
    /\ audio = NoAudio
    /\ audio' = AudioAfterInit("ok")
    /\ UNCHANGED <<framingVars, pacingVars, inputVars, clientVars>>
    /\ UNCHANGED <<senderVars, sessionVars, historyVars>>

\* run() for an accepted client: set_client of the audio sender and
\* m_audio_capture->start(callback): m_running = true, m_capturing = true,
\* m_thread = std::thread(capture_thread)
AudioStart ==
    /\ ~Terminated
    /\ m_running
    /\ Runs("main")
    /\ audio.initialized
    /\ ~audio.capturing
    /\ aud_stop["run"] \in {"idle", "returned"}
    /\ aud_thread = "none"
    /\ audio' = AudioAfterAccept(audio)
    /\ aud_running' = TRUE
    /\ aud_thread' = "test"
    /\ aud_stop' = [aud_stop EXCEPT !["run"] = "idle"]
    /\ aud_joins' = 0
    /\ aud_callback' = TRUE
    /\ UNCHANGED sig_thread
    /\ UNCHANGED <<ctl_stream, ctl_sent, ctl_read, in_queue, arrived, injected, cadenceVars,
                   pacingVars, sequenceVars, partialVars, inputStreamVars>>
    /\ UNCHANGED <<senderVars, sessionVars, historyVars, inputVars, clientVars>>

\* capture_thread: while (m_running)
CaptureTest ==
    /\ ~Terminated
    /\ Runs("capture")
    /\ aud_thread = "test"
    /\ aud_thread' = IF aud_running THEN "read" ELSE "finished"
    /\ UNCHANGED <<aud_running, aud_stop, sig_thread, aud_joins, aud_callback, audio>>
    /\ UNCHANGED <<ctl_stream, ctl_sent, ctl_read, in_queue, arrived, injected, cadenceVars,
                   pacingVars, sequenceVars, partialVars, inputStreamVars>>
    /\ UNCHANGED <<senderVars, sessionVars, historyVars, inputVars, clientVars>>

\* capture_thread: pa_simple_read returns a frame and m_callback is invoked
\* under m_callback_mutex, m_running not being read again; or the read fails
\* and the loop is left
CaptureRead ==
    /\ ~Terminated
    /\ Runs("capture")
    /\ aud_thread = "read"
    /\ \E failed \in BOOLEAN :
         /\ ~failed => audio.sent < MaxAudio
         /\ aud_thread' = IF failed THEN "finished"
                          ELSE IF aud_callback THEN "callback" ELSE "test"
    /\ UNCHANGED <<aud_running, aud_stop, sig_thread, aud_joins, aud_callback, audio>>
    /\ UNCHANGED <<ctl_stream, ctl_sent, ctl_read, in_queue, arrived, injected, cadenceVars,
                   pacingVars, sequenceVars, partialVars, inputStreamVars>>
    /\ UNCHANGED <<senderVars, sessionVars, historyVars, inputVars, clientVars>>

\* the callback, Server::on_audio_frame, encodes and sends, and returns
CaptureCallback ==
    /\ ~Terminated
    /\ Runs("capture")
    /\ aud_thread = "callback"
    /\ aud_thread' = "test"
    /\ audio' = IF audio.encoder /\ audio.sender /\ audio.has_client
                THEN [ audio EXCEPT !.sent = @ + 1 ]
                ELSE audio
    /\ UNCHANGED <<aud_running, aud_stop, sig_thread, aud_joins, aud_callback>>
    /\ UNCHANGED <<ctl_stream, ctl_sent, ctl_read, in_queue, arrived, injected, cadenceVars,
                   pacingVars, sequenceVars, partialVars, inputStreamVars>>
    /\ UNCHANGED <<senderVars, sessionVars, historyVars, inputVars, clientVars>>

\* the first signal is delivered to a thread, whose handler calls
\* Server::stop: m_running = false
SignalArrives ==
    /\ ~Terminated
    /\ sig_thread = "none"
    /\ \E t \in HandlerThreads :
         /\ t = "capture" => aud_thread \in {"test", "read", "callback"}
         /\ sig_thread' = t
    /\ m_running' = FALSE
    /\ UNCHANGED <<aud_running, aud_thread, aud_stop, aud_joins, aud_callback, audio>>
    /\ UNCHANGED <<ctl_stream, ctl_sent, ctl_read, in_queue, arrived, injected, cadenceVars,
                   pacingVars, sequenceVars, partialVars, inputStreamVars>>
    /\ UNCHANGED <<pc, m_client_connected, ctl_last, m_force_keyframe, enc_queue,
                   enc_since_key, m_frame_count>>
    /\ UNCHANGED <<senderVars, historyVars, inputVars, clientVars>>

\* a caller may take a step: run() when the session is over and no handler
\* runs on the main thread, the handler once the signal was delivered
MayStep(c) ==
    /\ ~Terminated
    /\ IF c = "run" THEN Runs("main") ELSE sig_thread # "none"

\* if (m_audio_capture && m_audio_capture->is_capturing()) m_audio_capture->stop(),
\* and stop()'s own test: if (!m_capturing && !m_running) return
StopEnter(c) ==
    /\ MayStep(c)
    /\ aud_stop[c] = "idle"
    /\ audio.capturing
    /\ aud_stop' = [aud_stop EXCEPT ![c] = "entered"]
    /\ UNCHANGED <<aud_running, aud_thread, sig_thread, aud_joins, aud_callback, audio>>

\* a stop() that returns once the flags are cleared
AfterFlagsReturn == "returned"

\* after the flags stop() goes on to the thread
AfterFlags == "jointest"

\* m_running = false; m_capturing = false
StopFlags(c) ==
    /\ MayStep(c)
    /\ aud_stop[c] = "entered"
    /\ aud_running' = FALSE
    /\ audio' = AudioStopped(audio)
    /\ aud_stop' = [aud_stop EXCEPT ![c] = AfterFlags]
    /\ UNCHANGED <<aud_thread, sig_thread, aud_joins, aud_callback>>

\* what m_thread.join() does when it is called: it waits ("joining"); called
\* on the capture thread itself it cannot return: pthread_join fails with
\* EDEADLK and std::thread::join throws, or the thread waits for itself;
\* called while another caller waits in join() it throws or waits as well
JoinOutcomes(c) ==
    IF ThreadOf(c) = "capture" THEN {"threw", "selfjoin"}
    ELSE IF \E d \in StopCallers \ {c} : aud_stop[d] = "joining" THEN {"threw", "joining"}
    ELSE {"joining"}

\* if (m_thread.joinable()) m_thread.join()
StopJoin(c) ==
    /\ MayStep(c)
    /\ aud_stop[c] = "jointest"
    /\ IF aud_thread = "none"
       THEN /\ aud_stop' = [aud_stop EXCEPT ![c] = "cleanup"]
            /\ UNCHANGED aud_joins
       ELSE /\ \E o \in JoinOutcomes(c) : aud_stop' = [aud_stop EXCEPT ![c] = o]
            /\ aud_joins' = aud_joins + 1
    /\ UNCHANGED <<aud_running, aud_thread, sig_thread, aud_callback, audio>>

\* join() returns when the thread function has returned
ThreadOver(t) == t \in {"finished", "none"}

\* m_thread.join() returns
StopJoined(c) ==
    /\ MayStep(c)
    /\ aud_stop[c] = "joining"
    /\ ThreadOver(aud_thread)
    /\ aud_thread' = IF aud_thread = "finished" THEN "none" ELSE aud_thread
    /\ aud_stop' = [aud_stop EXCEPT ![c] = "cleanup"]
    /\ UNCHANGED <<aud_running, sig_thread, aud_joins, aud_callback, audio>>

\* pa_simple_free, m_callback = nullptr under m_callback_mutex, which the
\* capture thread holds while the callback runs, and stop() returns
StopReturn(c) ==
    /\ MayStep(c)
    /\ aud_stop[c] = "cleanup"
    /\ aud_thread \notin {"callback"}
    /\ aud_stop' = [aud_stop EXCEPT ![c] = "returned"]
    /\ aud_callback' = FALSE
    /\ UNCHANGED <<aud_running, aud_thread, sig_thread, aud_joins, audio>>

\* one step of a stop() call
StopStep ==
    /\ \E c \in StopCallers :
         StopEnter(c) \/ StopFlags(c) \/ StopJoin(c) \/ StopJoined(c) \/ StopReturn(c)
    /\ UNCHANGED <<ctl_stream, ctl_sent, ctl_read, in_queue, arrived, injected, cadenceVars,
                   pacingVars, sequenceVars, partialVars, inputStreamVars>>
    /\ UNCHANGED <<senderVars, sessionVars, historyVars, inputVars, clientVars>>

NextAudioThread ==
    \/ AudioReady
    \/ AudioStart
    \/ CaptureTest
    \/ CaptureRead
    \/ CaptureCallback
    \/ SignalArrives
    \/ StopStep

SpecAudioThread == InitAudioThread /\ [][NextAudioThread]_vars

NextBurst == SetClientMode \/ SendPacedFrame

SpecBurst == Init /\ [][NextBurst]_vars

---------------------------------------------------------------------------
(* Properties *)

\* C1: the datagrams emitted for one frame carry fragment_idx 0, 1, 2, ... in
\* order; the start-of-frame flag is on the first fragment and no other; the
\* end-of-frame flag is on the last fragment (fragment_count - 1) and no
\* other; frame_number, fragment_count and the keyframe flag are the same on
\* all of them.
C1_FragmentOrdering ==
    \A k \in 1..Len(wire) :
        /\ wire[k].fragment_idx = k - 1
        /\ HasFlag(wire[k].flags, FLAG_START_OF_FRAME) <=> (k = 1)
        /\ HasFlag(wire[k].flags, FLAG_END_OF_FRAME)
              <=> (wire[k].fragment_idx = wire[k].fragment_count - 1)
        /\ wire[k].frame_number = wire[1].frame_number
        /\ wire[k].fragment_count = wire[1].fragment_count
        /\ HasFlag(wire[k].flags, FLAG_KEYFRAME) <=> HasFlag(wire[1].flags, FLAG_KEYFRAME)

\* a keyframe of at least three fragments was sent whole
C1_Witness ==
    /\ Len(wire) >= 3
    /\ Len(wire) = wire[1].fragment_count
    /\ HasFlag(wire[1].flags, FLAG_KEYFRAME)

\* a step of the stream loop that puts a frame on the wire
Emission == wire = << >> /\ wire' # << >>

\* frame number b is ahead of a in 16-bit serial order: the wrap from the
\* top of the range to its bottom is the only step down that counts as ahead
Ahead(a, b) == ((b - a) % FrameNumberModulus) \in 1..(FrameNumberModulus \div 2 - 1)

\* C2, as stated: over all inputs, disconnect and reconnect included, each
\* emitted frame's frame_number is ahead of the previously emitted frame's,
\* the wrap from 65535 to 0 being the only non-monotonic step.
C2_MonotonicAcrossSessions ==
    [][ (Emission /\ emitted_last # NoFrame)
          => Ahead(emitted_last.fn, emitted_last'.fn) ]_vars

\* C2, amended: the frame_number of an emitted frame is the session's count of
\* encoded frames modulo 2^16; within a session that count strictly increases
\* from one emitted frame to the next; every session start resets it to 0.
C2_MonotonicWithinSession ==
    [][ /\ Emission =>
             /\ emitted_last'.fn = emitted_last'.cnt % FrameNumberModulus
             /\ emitted_last.cur => emitted_last'.cnt > emitted_last.cnt
        /\ (pc = "accept" /\ pc' = "control") => m_frame_count' = 0 ]_vars

\* the session's first frame after the 16-bit wrap is on the wire, numbered 0
C2_Witness ==
    /\ emitted_last.cur
    /\ emitted_last.cnt = FrameNumberModulus
    /\ emitted_last.fn = 0
    /\ wire # << >>

\* a keyframe is among the frames the codec holds
KeyInFlight == \E k \in 1..Len(enc_queue) : enc_queue[k]

\* C3: after a call to request_keyframe() at most one non-keyframe is
\* produced before a keyframe; until that keyframe is produced the request
\* stays pending (the flag is set, or the forced frame is inside the codec)
\* whatever encode calls fail or yield no output.
C3_RequestHonoured ==
    /\ request.nonkey <= 1
    /\ request.origin # "none" => (m_force_keyframe \/ KeyInFlight)

\* C4: after a KeyframeRequest read by the message drain, the very next frame
\* the encoder produces is a keyframe.
C4_DrainRequestNextFrame ==
    request.origin = "drain" => request.nonkey = 0

\* C5: the first frame produced in every session is a keyframe.
C5_FirstFrameKey ==
    m_frame_count = 1 => produced_key

\* C6: process() forwards each KeyframeRequest it reads to request_keyframe()
\* exactly once, and forwards nothing for any other message: after the drain
\* read one, the callback ran once and the encoder's flag is set.
C6_ForwardedOnce ==
    /\ ctl_last.msg = "KEYFRAME_REQUEST" => (ctl_last.forwarded = 1 /\ m_force_keyframe)
    /\ ctl_last.msg # "KEYFRAME_REQUEST" => ctl_last.forwarded = 0

\* mid-stream, with no request outstanding, the drain read a KeyframeRequest
C6_Witness ==
    /\ ctl_last.msg = "KEYFRAME_REQUEST"
    /\ ctl_last.forwarded = 1
    /\ m_frame_count > 1
    /\ request = Requested("drain")

\* C7: the active touch slots are exactly the slots with a TouchDown not yet
\* matched by a TouchUp, and at most 5 slots are active.
C7_SlotConservation ==
    /\ { i \in Slots : m_touch_slots[i].active } = touch_downs
    /\ ActiveCount(m_touch_slots) <= NumTouchSlots

\* C8: whenever the stylus TOUCH key is pressed, a stylus TOOL_* key is
\* pressed, after any sequence of stylus events with any eraser bits.
C8_TipImpliesTool ==
    stylus_dev.touch => (stylus_dev.pen \/ stylus_dev.rubber)

\* C9: after a StylusUp, relayed in any stylus state, TOUCH, TOOL_PEN and
\* TOOL_RUBBER are released and the pressure emitted is 0.
C9_StylusUpReleases ==
    last_input.type = "STYLUS_UP" =>
        /\ stylus_dev = StylusReleased
        /\ ~m_stylus_tool_active
        /\ ~m_stylus_touching

\* a StylusUp was relayed while the eraser was touching
C9_Witness ==
    /\ last_input.type = "STYLUS_UP"
    /\ last_input.before.touch
    /\ last_input.before.rubber
    /\ last_input.before.pressure > 0
    /\ stylus_dev = StylusReleased

\* C10: after an in-range stylus event (StylusHover, StylusDown, StylusMove)
\* with the eraser flag set, TOOL_RUBBER is pressed and TOOL_PEN released;
\* with the flag clear, TOOL_PEN is pressed and TOOL_RUBBER released.
C10_EraserSelectsTool ==
    last_input.type \in {"STYLUS_HOVER", "STYLUS_DOWN", "STYLUS_MOVE"} =>
        IF last_input.eraser
        THEN stylus_dev.rubber /\ ~stylus_dev.pen
        ELSE stylus_dev.pen /\ ~stylus_dev.rubber

\* a step in which handle_input relays a TouchUp of a slot
TouchUpStep ==
    \E ev \in InputEvents :
        /\ ev.type = "TOUCH_UP"
        /\ ev.pointer_id \in Slots
        /\ uinput_initialized
        /\ HandleInputEvent(ev)

\* C11: a TouchUp clears the touch device's TOUCH key if and only if no slot
\* remains active afterwards: with no slot left TOUCH is released, and while
\* another slot is still active a pressed TOUCH stays pressed.
C11_TouchKeyFollowsSlots ==
    [][ TouchUpStep =>
          /\ ActiveCount(m_touch_slots') = 0 => ~touch_dev'.touch
          /\ (ActiveCount(m_touch_slots') > 0 /\ touch_dev.touch) => touch_dev'.touch ]_vars

\* a step in which reset_all runs on the created devices
ResetStep == uinput_initialized /\ ResetAll

\* C13: reset_all, from any reachable state, leaves the devices as they were
\* right after their creation: no key pressed on the stylus or the touch
\* device, no slot holding a tracking id, stylus pressure 0.
C13_ResetRestoresCreation ==
    [][ ResetStep =>
          /\ stylus_dev' = StylusReleased
          /\ touch_dev' = TouchReleased
          /\ \A i \in Slots : m_touch_slots'[i] = SlotFree
          /\ ~m_stylus_tool_active' /\ ~m_stylus_touching' ]_vars

\* reset_all ran with the stylus touching and all five slots active
C13_Witness ==
    /\ last_input.type = "RESET"
    /\ last_input.before.touch
    /\ last_input.active = NumTouchSlots
    /\ stylus_dev = StylusReleased
    /\ touch_dev = TouchReleased

\* nothing is pressed on the stylus or the touch device, no slot is active
AllReleased ==
    /\ stylus_dev = StylusReleased
    /\ touch_dev = TouchReleased
    /\ \A i \in Slots : m_touch_slots[i] = SlotFree

\* C12: whenever the server waits for the next session or the process has
\* ended, the relay has released every key and every slot and the stylus is
\* out of range.
C12_ReleasedBetweenSessions ==
    pc \in {"accept", "exited", "forced"} => AllReleased

\* the same, for the session end and the exit through main's return
C12_ReleasedUnlessForced ==
    pc \in {"accept", "exited"} => AllReleased

\* the control messages and read failures that end a session
SessionEnders == {"DISCONNECT", "EOF"}

C15_OneReceiver ==
    [][ /\ Len(listen_queue') < Len(listen_queue)
            => (pc = "accept" /\ ~m_client_connected)
        /\ m_client_connected'
            => (m_client_socket' \in Receivers /\ m_client_addr' = m_client_socket')
        /\ (m_client_connected /\ m_client_connected')
            => m_client_socket' = m_client_socket ]_vars

\* receiver 2, accepted from the queue after a session of receiver 1, is in
\* its session while receiver 1 waits again
C15_Witness ==
    /\ pc = "frame"
    /\ m_client_connected
    /\ m_client_socket = 2
    /\ listen_queue = <<1>>

\* the bytes of the messages written and not yet read
Unread == Flatten([i \in 1..Len(ctl_sent) |-> SendMessage(ctl_sent[i].type, ctl_sent[i].data)])

\* C16: read_message consumes the 3-byte header and the length-1 payload
\* bytes of one message: what it leaves unread is exactly the messages that
\* follow, and what it returns is the message that was first in the stream.
C16_ReaderAtMessageBoundary ==
    [][ (ctl_stream # << >> /\ ctl_stream' = ReadMessage(ctl_stream).rest /\ ctl_sent # << >>)
          => /\ ctl_read'.ok
             /\ ctl_read'.type = Head(ctl_sent).type
             /\ ctl_read'.data = Head(ctl_sent).data
             /\ Len(ctl_stream) - Len(ctl_stream') = 3 + Len(Head(ctl_sent).data)
             /\ ctl_stream' = Unread' ]_vars

\* a message with a 255-byte payload (length field 01 00) was read and the
\* reader stands at the header of a message that follows
C16_Witness ==
    /\ ctl_read.ok
    /\ Len(ctl_read.data) = 255
    /\ Len(ctl_sent) = 1
    /\ ctl_stream = Unread
    /\ ctl_stream # << >>

\* C17: of two events of the same slot of a device that were passed to the
\* kernel, the one that arrived first was passed first.
C17_ArrivalOrderPerSlot ==
    \A i, j \in 1..Len(injected) :
        (i < j /\ injected[i].device = injected[j].device /\ injected[i].slot = injected[j].slot)
            => injected[i].seq < injected[j].seq

\* two events of touch slot 0 were injected, one of slot 1 between them
C17_Witness ==
    /\ Len(injected) = 3
    /\ injected[1].device = "touch" /\ injected[1].slot = 0
    /\ injected[2].device = "touch" /\ injected[2].slot = 1
    /\ injected[3].device = "touch" /\ injected[3].slot = 0

\* a step in which handle_input runs on a key event, the devices created
KeyEventStep ==
    /\ in_queue # << >>
    /\ NextEvent(in_queue).ev.type \in {"KEY_DOWN", "KEY_UP"}
    /\ uinput_initialized
    /\ in_queue' = Tail(in_queue)

\* C18: a KeyDown or KeyUp event that handle_input receives is written to the
\* stylus or the mouse device as a key event.
C18_KeyEventsEmitted ==
    [][ KeyEventStep =>
          (injected' # injected \/ stylus_dev' # stylus_dev \/ touch_dev' # touch_dev) ]_vars

\* the datagrams on the wire are all the fragments of their frame
WholeFrame == Len(wire) = wire[1].fragment_count

\* C19: when send_frame puts the first datagram of a frame on the wire, the
\* frame whose datagrams were sent before it had all its fragments sent,
\* up to fragment_count - 1.
C19_FrameSentWholeBeforeNext ==
    [][ (wire # << >> /\ wire' # << >>) => WholeFrame ]_vars

\* C20: a frame of S bytes that is sent whole goes out as ceil(S/1200)
\* fragments of at most 1200 payload bytes each; their payloads are
\* consecutive pieces of the frame, the first from byte 0 and the last up to
\* byte S; a frame of exactly 1200 bytes is one fragment with the start and
\* the end flag.
C20_FragmentationCoversFrame ==
    (wire # << >> /\ WholeFrame) =>
        LET S == wire[1].frame_size
            n == Len(wire)
        IN  /\ n * MAX_PAYLOAD_SIZE >= S
            /\ (n - 1) * MAX_PAYLOAD_SIZE < S
            /\ \A k \in 1..n :
                 /\ wire[k].payload_len \in 1..MAX_PAYLOAD_SIZE
                 /\ wire[k].payload_offset =
                       (IF k = 1 THEN 0 ELSE wire[k-1].payload_offset + wire[k-1].payload_len)
            /\ wire[n].payload_offset + wire[n].payload_len = S
            /\ S = MAX_PAYLOAD_SIZE =>
                 /\ n = 1
                 /\ HasFlag(wire[1].flags, FLAG_START_OF_FRAME)
                 /\ HasFlag(wire[1].flags, FLAG_END_OF_FRAME)

\* a frame of exactly 1200 bytes went out as one fragment
C20_Witness ==
    /\ Len(wire) = 1
    /\ wire[1].frame_size = MAX_PAYLOAD_SIZE
    /\ wire[1].fragment_count = 1
    /\ wire[1].payload_len = MAX_PAYLOAD_SIZE

C25_ExitAfterDestructors ==
    pc \in {"exited", "forced"} => (~uinput_initialized /\ AllReleased)

\* C26: once m_running is cleared, run() accepts no receiver any more: from
\* waiting for a receiver it can only return.
C26_StopObservedWhileWaiting ==
    [][ (~m_running /\ pc = "accept") => pc' = "stopped" ]_vars

\* the frame phase of a loop iteration has run and no whole frame went out:
\* the frame was not due, not captured, not encoded, or a datagram of it
\* could not be sent
FrameDropped ==
    /\ pc = "frame"
    /\ pc' = "control"
    /\ (wire' = << >> \/ Len(wire') < wire'[1].fragment_count)

\* C27: a tick whose frame is lost to a capture, encoder or send failure
\* leaves the session as it was: the receiver stays connected, the sender
\* keeps its destination, the server keeps running (unless stopped meanwhile)
\* and the stream loop is back at its head, from where the next iteration
\* captures again.
C27_FrameErrorKeepsSession ==
    [][ FrameDropped =>
          /\ m_client_connected' = m_client_connected
          /\ m_client_socket' = m_client_socket
          /\ m_client_set' = m_client_set
          /\ m_running' = m_running
          /\ m_frame_count' \in {m_frame_count, NextFrameCount(m_frame_count)} ]_vars

\* the first frame of a session was counted but nothing of it is on the wire
\* (its first datagram could not be sent), and the session is live
C27_Witness ==
    /\ pc = "control"
    /\ StreamLoopTest
    /\ m_client_set
    /\ m_frame_count = 1
    /\ wire = << >>
    /\ sleeps = << >>
    /\ emitted_last = NoFrame

\* C28: when UInputBackend::init failed the server runs all the same, and
\* whatever input events it reads, none is passed to a uinput device: the
\* devices, the relay's bookkeeping and the record of injected events stay as
\* they were at start-up.
C28_NoDevicesNoEmission ==
    ~uinput_initialized =>
        /\ injected = << >>
        /\ AllReleased
        /\ ~m_stylus_tool_active
        /\ ~m_stylus_touching
        /\ touch_downs = {}
        /\ last_input = NoInput

\* without devices, MaxArrivals events have arrived and have all been read
C28_Witness ==
    /\ ~uinput_initialized
    /\ arrived = MaxArrivals
    /\ in_queue = << >>

\* C22: a deadline fires once, and the schedule never falls more than one
\* interval behind: when the capture of a deadline is over and the deadline
\* advanced, the new deadline is later than the one that fired and lies less
\* than one frame interval in the past.
C22_NeverMoreThanOneIntervalBehind ==
    tick.fired =>
        /\ next_frame > tick.deadline
        /\ next_frame + FrameInterval(capture_fps) >= tick.after

\* C23: at 1 frame per second the time from one call of process() on the
\* control and input connections to the next, which is how long a message
\* that has just arrived waits, is less than 100 ms.
C23_ResponsiveAtOneFps ==
    capture_fps = 1 => tick.gap < 100000

TetheringAddr(addr) ==
    addr[1] = 10 \/ (addr[1] = 192 /\ addr[2] = 168 /\ addr[3] \in {42, 43})

\* C30: with the pacing policy Auto, the pacing in force once a receiver's
\* address was set is Aggressive for 10.x.x.x, 192.168.42.x and 192.168.43.x
\* and Light for any other address.
C30_AutoResolvesByAddress ==
    (pacing_config.policy = "AUTO" /\ client_host # NoHost) =>
        m_pacing_mode = IF TetheringAddr(client_host) THEN "AGGRESSIVE" ELSE "LIGHT"

PacedSend ==
    /\ m_client_set
    /\ wire' # << >>
    /\ m_pacing_mode' = m_pacing_mode
    /\ (wire' # wire \/ sleeps' # sleeps \/ m_sequence' # m_sequence)

\* C31: under Keyframe-only pacing a frame that is not a keyframe and a
\* keyframe of at most 100000 bytes are sent without any sleep; a keyframe of
\* 100001..300000 bytes sleeps 150 us after every 6 fragments, one of
\* 300001..500000 bytes 200 us after every 4, a larger one 300 us after every 2
C31_KeyframeOnlyTiers ==
    [][ (PacedSend /\ m_pacing_mode = "KEYFRAME") =>
          LET size  == wire'[1].frame_size
              key   == HasFlag(wire'[1].flags, FLAG_KEYFRAME)
              count == wire'[1].fragment_count
              N     == IF size > 500000 THEN 2 ELSE IF size > 300000 THEN 4 ELSE 6
              us    == IF size > 500000 THEN 300 ELSE IF size > 300000 THEN 200 ELSE 150
          IN  IF ~key \/ size <= 100000
              THEN sleeps' = << >>
              ELSE sleeps' = [ k \in 1..Min(Len(wire') \div N, (count - 1) \div N) |->
                                 [ after |-> k * N - 1, us |-> us ] ] ]_vars

\* C32: a frame paced with bursts of N fragments sleeps the inter-burst delay
\* after every Nth fragment it sent, except after the final fragment of the
\* frame
C32_SleepAfterEachBurstButLast ==
    [][ PacedSend =>
          LET size   == wire'[1].frame_size
              key    == HasFlag(wire'[1].flags, FLAG_KEYFRAME)
              count  == wire'[1].fragment_count
              pacing == FramePacing(m_pacing_mode, size, key)
              N      == pacing.packets_per_burst
          IN  /\ \A k \in 1..Len(sleeps') :
                   /\ sleeps'[k].us = pacing.burst_delay_us
                   /\ sleeps'[k].after = k * N - 1
                   /\ sleeps'[k].after < count - 1
                   /\ sleeps'[k].after < Len(wire')
              /\ pacing.need_pacing =>
                   \A i \in 0..(Len(wire') - 1) :
                       ((i + 1) % N = 0 /\ i < count - 1) =>
                           \E k \in 1..Len(sleeps') : sleeps'[k].after = i ]_vars

\* a whole frame of a multiple of N fragments was sent with sleeps, the last
\* of them one burst before the final fragment
C32_Witness ==
    /\ wire # << >>
    /\ sleeps # << >>
    /\ Len(wire) = wire[1].fragment_count
    /\ LET N == FramePacing(m_pacing_mode, wire[1].frame_size,
                            HasFlag(wire[1].flags, FLAG_KEYFRAME)).packets_per_burst
       IN  /\ N > 0
           /\ wire[1].fragment_count % N = 0
           /\ sleeps[Len(sleeps)].after = wire[1].fragment_count - 1 - N

\* the creations and destructions a step added to device_log
NewDeviceOps == SubSeq(device_log', Len(device_log) + 1, Len(device_log'))

\* C33: whenever init or shutdown destroys devices, it destroys them in the
\* reverse of the order of creation: shutdown destroys touch, mouse, stylus,
\* and the cleanup of a failed init destroys the devices it created, last
\* created first
C33_DestroyedInReverseCreationOrder ==
    [][ LET ops       == NewDeviceOps
            created   == SelectSeq(ops, LAMBDA o : o.op = "create")
            destroyed == SelectSeq(ops, LAMBDA o : o.op = "destroy")
            of        == IF created = << >> THEN CreationOrder
                         ELSE [ k \in 1..Len(created) |-> created[k].dev ]
        IN  destroyed # << >> =>
                /\ Len(destroyed) = Len(of)
                /\ \A k \in 1..Len(destroyed) :
                       destroyed[k].dev = of[Len(of) + 1 - k] ]_vars

\* C34: while the server waits for a receiver, after a session ended as at
\* the start, the video sender has no destination set
C34_NoDestinationBetweenSessions ==
    pc = "accept" => ~m_client_set

\* C35: ControlServer::process is never inside a call that waits: it returns
\* at once when a complete message is not there
C35_ProcessNeverBlocks ==
    ~ctl_wait

\* C36: every packet read_event returns is a whole record of the peer, and
\* the packets are the peer's records in order, each once, however the bytes
\* were delivered
C36_DecodedOnRecordBoundaries ==
    /\ Len(in_decoded) <= arrived
    /\ \A k \in 1..Len(in_decoded) : in_decoded[k] = RecordBytes(k)

\* C37: while the input receiver has no client, nothing is pressed on the
\* stylus or the touch device and no slot is active
C37_ReleasedWithoutInputPeer ==
    ~input_socket => AllReleased

\* C38: no accepted control socket stays open without a descriptor to close
\* it: the socket of a failed handshake is closed before accept() is called
\* again
C38_NoControlSocketLeaked ==
    ctl_leaked = 0

C40_StopsInterleaveSafely ==
    /\ aud_joins <= 1
    /\ \A c \in StopCallers : aud_stop[c] \notin {"threw", "selfjoin"}

====
